---- MODULE Spec2Model ----
(***************************************************************************)
(* CANopenLinux: the epoll event loop (CO_epoll_interface.c), the          *)
(* file-backed storage engine (CO_storageLinux.c), the per-interface CAN   *)
(* error monitor (CO_error.c) and the socketCAN driver (CO_driver.c).      *)
(*                                                                         *)
(* Each subsystem has its own specifications (SpecEpoll, SpecStorage,      *)
(* SpecNoack, SpecListen, SpecRx, SpecGtw, SpecStdio, SpecAuto); SpecMain  *)
(* is the inner loop of main over them and SpecRT the real-time thread     *)
(* beside main's communication reset. The variables of the subsystems a    *)
(* specification leaves out stay at their construction values.             *)
(***************************************************************************)
EXTENDS Integers, Naturals, Sequences, FiniteSets, TLC

VARIABLES
    \* ---- event loop (one CO_epoll_t and the kernel objects behind it)
    ep,          \* CO_epoll_t fields
    ep_pc,       \* "wait": in CO_epoll_wait, "proc": between its return and CO_epoll_processLast
    evCount,     \* counter of the eventfd behind ep->event_fd
    kt,          \* kernel timer behind ep->timer_fd: [value, interval, ticks]
    otherReady,  \* some other descriptor of the epoll set is readable
    ep_src,      \* history: what the last CO_epoll_wait return was caused by
    ep_val,      \* history: value the last read(event_fd) returned
    wakeRet,     \* history: wake-up caused returns since the last wakeupCallback
    ep_settime,  \* history: the last CO_epoll_processLast called timerfd_settime
    \* ---- storage engine (one CO_storage_entry_t and the files behind it)
    fsFiles,     \* file -> [ex, bytes]: whether it exists and what it holds
    se,          \* the entry: [auto, mem, crc, fp], fp the file its stream is open on
    st_pc,       \* "boot": process started, before CO_storageLinux_init; "run": after it
    st_ret,      \* what the last storage operation returned
    st_run,      \* history of the current run: [reset, saved, resaved, dirty]
    st_hist,     \* history of how the previous run ended, until the first operation after init
    \* ---- CAN driver (one CO_CANmodule_t, its interface 0 and the socket behind it)
    multi,       \* the build: CO_DRIVER_MULTI_INTERFACE > 0
    now,         \* CLOCK_MONOTONIC in ticks
    cm,          \* CO_CANmodule_t fields
    eh,          \* CO_CANinterfaceErrorhandler_t of interface 0
    rxArray,     \* receive slots: [ident, mask, cb], cb: CANrx_callback is not NULL
    rxFilter,    \* CANmodule->rxFilter, <<>> when NULL
    kfilter,     \* filters installed on the socket by CAN_RAW_FILTER
    kdrop,       \* drop counter of the socket (SO_RXQ_OVFL)
    txArray,     \* transmit buffers: [bufferFull]
    main_pc,     \* position of main in the communication reset loop
    can_last,    \* history: the last driver operation and what it did
    ackRun,      \* history: consecutive ACK-miss frames processed from ACTIVE with counter 0
    loEntry,     \* history: tick of the latest entry to listen-only
    \* ---- command gateway (one CO_epoll_gtw_t and the sockets behind it)
    gw,          \* CO_epoll_gtw_t fields
    gk,          \* kernel: [armed, backlog, open, watched] of the listener and the connections
    gw_last,     \* history: what the last CO_epoll_processGtw did
    gw_raw,      \* history: bytes read from stdin since the last newline
    gw_fed,      \* history: bytes passed to the parser since the last newline
    gw_done,     \* history: the lines the last read completed, as [raw, fed]
    \* ---- threads (main's inner loop, rt_thread, the lock of the object dictionary)
    singleThread,         \* the build: CO_SINGLE_THREAD is defined
    snd,                  \* per thread: where it stands inside CO_CANsend or the re-send of CO_CANmodule_process
    sockFull,             \* the send queue of the CAN socket is full: send() fails with EAGAIN
    ml_pc,                \* the phase main's inner loop runs next
    storageIntervalTimer, \* the local of main
    storageErrorPrev,     \* the local of main: the mask of the previous auto-save tick
    nodeIdUnconfigured,   \* CO->nodeIdUnconfigured
    emAutoSave,           \* the CO_EM_NON_VOLATILE_AUTO_SAVE condition of the emergency object
    em_last,              \* history: what the last auto-save tick found and emitted
    CO_endProgram,        \* the flag the signal handler sets
    loop_in,              \* per thread: the test at the top of its loop has let it in
    end_hist,             \* history: per thread, waits that returned after the flag was set
    odLock,               \* owner of CO_OD_mutex: "none", "main" or "rt"
    rt_pc,                \* position of the caller of CO_epoll_processRT, "off": no such caller
    ml_trace,             \* history: the phases run so far in this iteration of the loop
    tx_hist,              \* history: the last send or re-send of the mainline and the state it found
    s5,                   \* history: [stage, idx] of a refused send on its way to the re-send
    rt_steps,             \* history: the objects processed since the last test of CANnormal
    rt_last,              \* history: the last object processed and the state it found
    resetting,            \* history: main cleared CANnormal and has not yet set normal mode again
    au_hist               \* history: [tick, prev] of the last two auto-save ticks

epVars ==
    <<ep, ep_pc, evCount, kt, otherReady, ep_src, ep_val, wakeRet, ep_settime>>

stVars ==
    <<fsFiles, se, st_pc, st_ret, st_run, st_hist>>

canVars ==
    <<multi, now, cm, eh, rxArray, rxFilter, kfilter, kdrop, txArray, main_pc,
      can_last, ackRun, loEntry>>

gtwVars ==
    <<gw, gk, gw_last, gw_raw, gw_fed, gw_done>>

emVars ==
    <<storageErrorPrev, nodeIdUnconfigured, emAutoSave, em_last>>

endVars ==
    <<CO_endProgram, loop_in, end_hist>>

thrVars ==
    <<singleThread, snd, sockFull, ml_pc, storageIntervalTimer, emVars, endVars, odLock, rt_pc, ml_trace, tx_hist, s5,
      rt_steps, rt_last, resetting, au_hist>>

vars ==
    <<epVars, stVars, canVars, gtwVars, thrVars>>

\* everything but the variables of one subsystem
notEpVars ==
    <<stVars, canVars, gtwVars, thrVars>>

notStVars ==
    <<epVars, canVars, gtwVars, thrVars>>

notCanVars ==
    <<epVars, stVars, gtwVars, thrVars>>

notGtwVars ==
    <<epVars, stVars, canVars, thrVars>>

(***************************************************************************)
(* Event loop                                                              *)
(***************************************************************************)

\* most notifications that may be pending in the eventfd
MaxWake ==
    3

\* most unread expirations the timer accumulates
MaxTicks ==
    2

MAIN_THREAD_INTERVAL_US ==
    100000

TMR_THREAD_INTERVAL_US ==
    1000

CANSEND_DELAY_US ==
    100

\* an interval on the other side of the one-second split of CO_epoll_processLast
LongInterval_us ==
    1000 * 1000

Intervals ==
    {TMR_THREAD_INTERVAL_US, MAIN_THREAD_INTERVAL_US, LongInterval_us}

\* values the collaborators store into timerNext_us
TimerNextChoices ==
    {0, CANSEND_DELAY_US, TMR_THREAD_INTERVAL_US, MAIN_THREAD_INTERVAL_US}

\* struct timespec -> nanoseconds, the unit the kernel timer counts in
TimespecNs(sec, nsec) ==
    sec * 1000000000 + nsec

\* timerfd_settime(fd, 0, &tm, NULL): EINVAL leaves the timer as it was,
\* it_value 0 disarms, otherwise the next expiration is it_value from now
\* and the following ones it_interval apart; pending expirations are dropped
timerfd_settime(t, tm) ==
    IF tm.value_nsec >= 1000000000 \/ tm.interval_nsec >= 1000000000
    THEN t
    ELSE [value |-> TimespecNs(tm.value_sec, tm.value_nsec),
          interval |-> TimespecNs(tm.interval_sec, tm.interval_nsec),
          ticks |-> 0]

\* an eventfd with semaphore semantics: each read takes one notification
EventfdReadSemaphore(c) ==
    c - 1

\* read() of an eventfd created without EFD_SEMAPHORE: the counter is reset
EventfdRead(c) ==
    0

CO_epoll_create(timerInterval_us, junkEvent, junkNext) ==
    LET tm == [interval_sec |-> timerInterval_us \div 1000000,
               interval_nsec |-> (timerInterval_us % 1000000) * 1000,
               value_sec |-> 0,
               value_nsec |-> 1]
    IN  /\ ep = [epoll_new |-> FALSE,
                 timerEvent |-> junkEvent,
                 timerNext_us |-> junkNext,
                 timerInterval_us |-> timerInterval_us,
                 tm |-> tm]
        /\ evCount = 0
        /\ kt = timerfd_settime([value |-> 0, interval |-> 0, ticks |-> 0], tm)

EpInit ==
    /\ \E i \in Intervals, e \in BOOLEAN :
          CO_epoll_create(i, e, 0)
    /\ ep_pc = "wait"
    /\ otherReady = FALSE
    /\ ep_src = "none"
    /\ ep_val = 0
    /\ wakeRet = 0
    /\ ep_settime = FALSE

EpIdle ==
    /\ CO_epoll_create(MAIN_THREAD_INTERVAL_US, FALSE, 0)
    /\ ep_pc = "wait"
    /\ otherReady = FALSE
    /\ ep_src = "none"
    /\ ep_val = 0
    /\ wakeRet = 0
    /\ ep_settime = FALSE

\* what epoll_wait(epoll_fd, &ev, 1, -1) can return with
ReadySources ==
    {"eintr", "error"}
        \cup (IF evCount > 0 THEN {"event"} ELSE {})
        \cup (IF kt.ticks > 0 THEN {"timer"} ELSE {})
        \cup (IF otherReady THEN {"other"} ELSE {})

\* a return that reads the eventfd whatever descriptor was reported
ReadsEventFdAlways(src) ==
    src \in {"event", "timer", "other"}

\* the branch of CO_epoll_wait that reads event_fd
ReadsEventFd(src) ==
    src = "event"

\* a classification that leaves timerNext_us as the last iteration left it
WaitSnapshotKeepsNext(e, src) ==
    [e EXCEPT !.epoll_new = (src = "other"),
              !.timerEvent = (src = "timer")]

\* the fields CO_epoll_wait leaves behind for the iteration
WaitSnapshot(e, src) ==
    [e EXCEPT !.epoll_new = (src = "other"),
              !.timerEvent = (src = "timer"),
              !.timerNext_us = e.timerInterval_us]

\* CO_epoll_wait returning because of src
WaitReturn(src) ==
    /\ ep_pc = "wait"
    /\ src \in ReadySources
    /\ ep' = WaitSnapshot(ep, src)
    /\ evCount' = IF ReadsEventFd(src) THEN EventfdRead(evCount) ELSE evCount
    /\ kt' = IF src = "timer" THEN [kt EXCEPT !.ticks = 0] ELSE kt
    /\ ep_src' = src
    /\ ep_val' = IF src = "event" THEN evCount ELSE 0
    /\ wakeRet' = IF src = "event" THEN wakeRet + 1 ELSE wakeRet
    /\ ep_pc' = "proc"
    /\ UNCHANGED <<otherReady, ep_settime>>

CO_epoll_wait ==
    \E src \in {"eintr", "error", "event", "timer", "other"} : WaitReturn(src)

\* a re-arm that stores the shortened delay as the period as well
NextTimerValueAsPeriod(e) ==
    [e.tm EXCEPT !.value_nsec = (e.timerNext_us + 1) * 1000,
                 !.interval_sec = 0,
                 !.interval_nsec = (e.timerNext_us + 1) * 1000]

\* it_value the code stores before timerfd_settime
NextTimerValue(e) ==
    IF e.timerInterval_us < 1000000
    THEN [e.tm EXCEPT !.value_nsec = (e.timerNext_us + 1) * 1000]
    ELSE [e.tm EXCEPT !.value_sec = (e.timerNext_us + 1) \div 1000000,
                      !.value_nsec = ((e.timerNext_us + 1) % 1000000) * 1000]

\* re-arming also when the application left timerNext_us at the interval
TimerLoweredOrEqual(e) ==
    e.timerNext_us <= e.timerInterval_us

\* the test that decides whether CO_epoll_processLast re-arms the timer
TimerLowered(e) ==
    e.timerNext_us < e.timerInterval_us

CO_epoll_processLast ==
    /\ ep_pc = "proc"
    /\ IF TimerLowered(ep)
       THEN /\ ep' = [ep EXCEPT !.epoll_new = FALSE,
                                !.timerNext_us = ep.timerNext_us + 1,
                                !.tm = NextTimerValue(ep)]
            /\ kt' = timerfd_settime(kt, NextTimerValue(ep))
            /\ ep_settime' = TRUE
       ELSE /\ ep' = [ep EXCEPT !.epoll_new = FALSE]
            /\ kt' = kt
            /\ ep_settime' = FALSE
    /\ ep_pc' = "wait"
    /\ UNCHANGED <<evCount, otherReady, ep_src, ep_val, wakeRet>>

\* write(event_fd, 1) from another thread
wakeupCallback ==
    /\ evCount < MaxWake
    /\ evCount' = evCount + 1
    /\ wakeRet' = 0
    /\ UNCHANGED <<ep, ep_pc, kt, otherReady, ep_src, ep_val, ep_settime>>

\* CO_epoll_processRT: the CAN driver recognised the event and took it
ConsumeEvent ==
    /\ ep_pc = "proc"
    /\ ep.epoll_new
    /\ otherReady
    /\ ep' = [ep EXCEPT !.epoll_new = FALSE]
    /\ \E more \in BOOLEAN : otherReady' = more
    /\ UNCHANGED <<ep_pc, evCount, kt, ep_src, ep_val, wakeRet, ep_settime>>

\* CO_process and CO_epoll_processMain lower timerNext_us
LowerTimerNext ==
    /\ ep_pc = "proc"
    /\ \E v \in TimerNextChoices :
          /\ v < ep.timerNext_us
          /\ ep' = [ep EXCEPT !.timerNext_us = v]
    /\ UNCHANGED <<ep_pc, evCount, kt, otherReady, ep_src, ep_val, wakeRet, ep_settime>>

\* a descriptor other than the eventfd and the timer becomes readable
OtherArrives ==
    /\ ~otherReady
    /\ otherReady' = TRUE
    /\ UNCHANGED <<ep, ep_pc, evCount, kt, ep_src, ep_val, wakeRet, ep_settime>>

\* time passes until the armed timer expires
TimerExpires ==
    /\ kt.value > 0
    /\ kt.ticks < MaxTicks
    /\ kt' = [kt EXCEPT !.ticks = kt.ticks + 1, !.value = kt.interval]
    /\ UNCHANGED <<ep, ep_pc, evCount, otherReady, ep_src, ep_val, wakeRet, ep_settime>>

(***************************************************************************)
(* Bit operations on non-negative integers                                 *)
(***************************************************************************)

RECURSIVE BitAnd(_, _)
BitAnd(a, b) ==
    IF a = 0 \/ b = 0
    THEN 0
    ELSE (a % 2) * (b % 2) + 2 * BitAnd(a \div 2, b \div 2)

RECURSIVE BitXor(_, _)
BitXor(a, b) ==
    IF a = 0
    THEN b
    ELSE IF b = 0
         THEN a
         ELSE ((a + b) % 2) + 2 * BitXor(a \div 2, b \div 2)

RECURSIVE BitOr(_, _)
BitOr(a, b) ==
    IF a = 0
    THEN b
    ELSE IF b = 0
         THEN a
         ELSE (IF a % 2 = 1 \/ b % 2 = 1 THEN 1 ELSE 0) + 2 * BitOr(a \div 2, b \div 2)

(***************************************************************************)
(* Storage engine                                                          *)
(***************************************************************************)

\* entry->len, in bytes
EntryLen ==
    1

\* values a byte of the entry's memory takes
ImageBytes ==
    {0, 1}

Images ==
    [1..EntryLen -> ImageBytes]

\* the values the program starts with before anything is restored
DefaultImage ==
    [i \in 1..EntryLen |-> 1]

\* <path>, <path>.tmp, <path>.old
FileNames ==
    {"path", "tmp", "old"}

\* "open": the file an open stream still holds after its name was taken away
FileSlots ==
    FileNames \cup {"open"}

Absent ==
    [ex |-> FALSE, bytes |-> <<>>]

\* one shift-and-xor step of the CRC register, polynomial 0x1021
CrcShift(c) ==
    IF c >= 32768
    THEN BitXor((c * 2) % 65536, 4129)
    ELSE c * 2

RECURSIVE CrcShiftN(_, _)
CrcShiftN(c, n) ==
    IF n = 0 THEN c ELSE CrcShift(CrcShiftN(c, n - 1))

CrcTable ==
    [x \in 0..255 |-> CrcShiftN(x * 256, 8)]

RECURSIVE crc16_ccitt(_, _, _)
crc16_ccitt(buf, len, crc) ==
    IF len = 0
    THEN crc
    ELSE LET c == crc16_ccitt(buf, len - 1, crc)
         IN  BitXor((c * 256) % 65536, CrcTable[BitXor(c \div 256, buf[len])])

\* a uint16_t as the two bytes fwrite/memcpy move (little endian host)
Bytes16(c) ==
    <<c % 256, c \div 256>>

Word16(b) ==
    b[1] + 256 * b[2]

\* the two bytes fputs("-\n") writes
DefaultsMarker ==
    <<45, 10>>

\* ---- the files and what the calls of the code do to them; f.fp is the
\* ---- file the entry's auto-save stream is open on

Fs ==
    [d |-> fsFiles, fp |-> se.fp]

\* fclose of the auto-save stream (or the end of the process)
fclose(f) ==
    [d |-> [f.d EXCEPT !["open"] = Absent], fp |-> "none"]

\* fopen(name, "w"): create the file or truncate it
fopen_w(f, name) ==
    [f EXCEPT !.d[name] = [ex |-> TRUE, bytes |-> <<>>]]

\* rename(from, to): fails when from does not exist, else replaces to; an
\* open stream follows its file
rename(f, from, to) ==
    IF ~f.d[from].ex
    THEN f
    ELSE [d |-> [f.d EXCEPT ![to] = f.d[from],
                            ![from] = Absent,
                            !["open"] = IF f.fp = to THEN f.d[to] ELSE f.d["open"]],
          fp |-> IF f.fp = from THEN to ELSE IF f.fp = to THEN "open" ELSE f.fp]

\* bytes written at an offset of a file
fwrite(f, slot, pos, bytes) ==
    LET old == f.d[slot].bytes
        end == pos + Len(bytes)
    IN  [f EXCEPT !.d[slot].bytes =
            SubSeq(old, 1, pos) \o bytes \o
            (IF Len(old) > end THEN SubSeq(old, end + 1, Len(old)) ELSE <<>>)]

\* what fread of up to max bytes gives
fread(c, max) ==
    IF Len(c.bytes) > max THEN SubSeq(c.bytes, 1, max) ELSE c.bytes

\* a complete file: the image followed by its CRC
FileImage(img) ==
    img \o Bytes16(crc16_ccitt(img, EntryLen, 0))

NoHist ==
    [end |-> "none", op |-> "none", at |-> 0, prev |-> Absent,
     mem |-> DefaultImage, reset |-> FALSE, saved |-> FALSE, resaved |-> FALSE,
     insync |-> FALSE, wrote |-> FALSE]

NewRun ==
    [reset |-> FALSE, saved |-> FALSE, resaved |-> FALSE, dirty |-> TRUE]

\* a process that has just been started: compiled-in values, no open file
FreshEntry(auto, sub) ==
    [auto |-> auto, sub |-> sub, mem |-> DefaultImage, crc |-> 0, fp |-> "none"]

\* mask: the bits set in *storageInitError or in the returned error mask
Ret(op, code, restored) ==
    [op |-> op, code |-> code, restored |-> restored, mask |-> {}]

\* the bit an entry is reported with: its sub-index, at most 31
ErrorBit(subIndexOD) ==
    IF subIndexOD > 31 THEN 31 ELSE subIndexOD

\* the process dies at a point `at` of operation `op`: the files stay as the
\* calls made so far left them, everything in memory is gone
Crashed(f, op, at, prev) ==
    /\ fsFiles' = fclose(f).d
    /\ se' = FreshEntry(se.auto, se.sub)
    /\ st_pc' = "boot"
    /\ st_ret' = Ret("none", "NO", FALSE)
    /\ st_run' = NewRun
    /\ st_hist' = [NoHist EXCEPT !.end = "crash", !.op = op, !.at = at, !.prev = prev]

\* a test that forgets the two CRC bytes in the expected length
InitAcceptsDataOnly(cnt, crc1, crc2) ==
    crc1 = crc2 /\ cnt = EntryLen

\* the test of CO_storageLinux_init that accepts what was read
InitAccepts(cnt, crc1, crc2) ==
    crc1 = crc2 /\ cnt = EntryLen + 2

\* what CO_storageLinux_init finds in the file of the entry
InitRead(c) ==
    LET buf == fread(c, EntryLen + 2)
        cnt == Len(buf)
    IN  IF ~c.ex
        THEN [corrupt |-> TRUE, restored |-> FALSE, mem |-> se.mem, crc |-> se.crc]
        ELSE IF cnt = 2 /\ buf[1] = 45
             THEN [corrupt |-> FALSE, restored |-> FALSE, mem |-> se.mem, crc |-> se.crc]
             ELSE IF cnt = EntryLen + 2
                     /\ InitAccepts(cnt, crc16_ccitt(buf, EntryLen, 0),
                                    Word16(SubSeq(buf, EntryLen + 1, EntryLen + 2)))
                  THEN [corrupt |-> FALSE, restored |-> TRUE,
                        mem |-> SubSeq(buf, 1, EntryLen),
                        crc |-> crc16_ccitt(buf, EntryLen, 0)]
                  ELSE [corrupt |-> TRUE, restored |-> FALSE, mem |-> se.mem, crc |-> se.crc]

\* crash: the process dies after the fopen that keeps the file open for
\* auto-save
CO_storageLinux_init(crash) ==
    LET c == fsFiles["path"]
        r == InitRead(c)
        f1 == IF se.auto /\ ~r.restored THEN fopen_w(Fs, "path") ELSE Fs
    IN  /\ st_pc = "boot"
        /\ IF crash
           THEN /\ se.auto
                /\ Crashed(f1, "init", 1, c)
           ELSE /\ fsFiles' = f1.d
                /\ se' = [se EXCEPT !.mem = r.mem, !.crc = r.crc,
                                    !.fp = IF se.auto THEN "path" ELSE "none"]
                /\ st_pc' = "run"
                /\ st_ret' = [Ret("init",
                                  IF r.corrupt THEN "DATA_CORRUPT" ELSE "NO",
                                  r.restored)
                              EXCEPT !.mask = IF r.corrupt THEN {ErrorBit(se.sub)} ELSE {}]
                /\ st_run' = [NewRun EXCEPT !.dirty = ~r.restored]
                /\ UNCHANGED st_hist

\* storeLinux; crashAt 0: it returns, 1: the process dies after fopen of the
\* temporary file, 2: after the data are written, 3: after the CRC is
\* written and the file closed, 4: after rename(path, path.old)
storeLinux(crashAt) ==
    LET f0 == Fs
        f1 == fopen_w(f0, "tmp")
        f2 == fwrite(f1, "tmp", 0, se.mem)
        crc_store == crc16_ccitt(se.mem, EntryLen, 0)
        f3 == fwrite(f2, "tmp", EntryLen, Bytes16(crc_store))
        buf == fread(f3.d["tmp"], EntryLen + 4)
        ok == /\ Len(buf) = EntryLen + 2
              /\ crc_store = crc16_ccitt(buf, EntryLen, 0)
              /\ crc_store = Word16(SubSeq(buf, EntryLen + 1, EntryLen + 2))
        f4 == rename(f3, "path", "old")
        f5 == rename(f4, "tmp", "path")
        fs == <<f1, f2, f3, f4>>
        fin == IF ok THEN f5 ELSE f3
    IN  /\ st_pc = "run"
        /\ IF crashAt > 0
           THEN Crashed(fs[crashAt], "store", crashAt, f0.d["path"])
           ELSE /\ fsFiles' = fin.d
                /\ se' = [se EXCEPT !.fp = fin.fp]
                /\ st_ret' = Ret("store", IF ok THEN "ODR_OK" ELSE "ODR_HW", FALSE)
                /\ st_run' = [st_run EXCEPT !.saved = TRUE, !.resaved = st_run.reset]
                /\ st_hist' = NoHist
                /\ UNCHANGED st_pc

\* a restore that leaves the auto-save stream open
RestoreClosesNever(auto, fp) ==
    FALSE

\* restoreLinux closes the stream of an auto-saved entry first
RestoreCloses(auto, fp) ==
    auto /\ fp # "none"

\* restoreLinux; crashAt 1: the process dies after rename(path, path.old),
\* 2: after fopen(path, "w") and before fclose writes the marker
restoreLinux(crashAt) ==
    LET f0 == IF RestoreCloses(se.auto, se.fp) THEN fclose(Fs) ELSE Fs
        f1 == rename(f0, "path", "old")
        f2 == fopen_w(f1, "path")
        f3 == fwrite(f2, "path", 0, DefaultsMarker)
        fs == <<f1, f2>>
    IN  /\ st_pc = "run"
        /\ IF crashAt > 0
           THEN Crashed(fs[crashAt], "restore", crashAt, fsFiles["path"])
           ELSE /\ fsFiles' = f3.d
                /\ se' = [se EXCEPT !.fp = f3.fp]
                /\ st_ret' = Ret("restore", "ODR_OK", FALSE)
                /\ st_run' = [st_run EXCEPT !.reset = TRUE, !.resaved = FALSE]
                /\ st_hist' = NoHist
                /\ UNCHANGED st_pc

\* a test that takes every tick for a changed memory
AutoNeedsWriteAlways(crc, stored) ==
    TRUE

\* the test of CO_storageLinux_auto_process that decides to write the file
AutoNeedsWrite(crc, stored) ==
    crc # stored

\* one pass of CO_storageLinux_auto_process over the entry. ioError: the
\* fwrite calls write nothing; mem1: the memory as the data fwrite finds it
\* (another thread may have changed it since the CRC was computed);
\* half: only the data fwrite has been done
AutoPass(closeFiles, ioError, mem1, half) ==
    LET active == se.auto /\ se.fp # "none"
        crc == crc16_ccitt(se.mem, EntryLen, 0)
        write == active /\ AutoNeedsWrite(crc, se.crc)
        f1 == IF write /\ ~ioError THEN fwrite(Fs, se.fp, 0, mem1) ELSE Fs
        f2 == IF write /\ ~ioError THEN fwrite(f1, se.fp, EntryLen, Bytes16(crc)) ELSE Fs
        f3 == IF active /\ closeFiles THEN fclose(f2) ELSE f2
    IN  [f |-> IF half THEN f1 ELSE f3,
         wrote |-> write /\ ~ioError,
         error |-> write /\ ioError,
         entry |-> [se EXCEPT !.mem = IF write THEN mem1 ELSE se.mem,
                              !.crc = IF write /\ ~ioError THEN crc ELSE se.crc,
                              !.fp = f3.fp],
         dirty |-> IF write /\ ~ioError THEN mem1 # se.mem ELSE st_run.dirty]

\* the periodic call of the mainline; crash: the process dies between the
\* two fwrite calls
CO_storageLinux_auto_process(crash, ioError, mem1) ==
    LET r == AutoPass(FALSE, ioError, mem1, crash)
    IN  /\ st_pc = "run"
        /\ IF crash
           THEN /\ se.auto /\ se.fp # "none"
                /\ crc16_ccitt(se.mem, EntryLen, 0) # se.crc
                /\ ~ioError
                /\ Crashed(r.f, "auto", 1, fsFiles["path"])
           ELSE /\ fsFiles' = r.f.d
                /\ se' = r.entry
                /\ st_ret' = [Ret("auto", IF r.error THEN "ERROR_BIT" ELSE "NO", FALSE)
                              EXCEPT !.mask = IF r.error THEN {ErrorBit(se.sub)} ELSE {}]
                /\ st_run' = [st_run EXCEPT !.dirty = r.dirty]
                /\ st_hist' = NoHist
                /\ UNCHANGED st_pc

\* the application or a CANopen object changes the entry's memory
MemWrite(img) ==
    /\ st_pc = "run"
    /\ img # se.mem
    /\ se' = [se EXCEPT !.mem = img]
    /\ st_run' = [st_run EXCEPT !.dirty = TRUE]
    /\ st_hist' = NoHist
    /\ UNCHANGED <<fsFiles, st_pc, st_ret>>

\* orderly end of main: the other thread is joined, then
\* CO_storageLinux_auto_process(&storage, true); the process exits and is
\* started again
Shutdown(ioError) ==
    LET r == AutoPass(TRUE, ioError, se.mem, FALSE)
    IN  /\ st_pc = "run"
        /\ fsFiles' = fclose(r.f).d
        /\ se' = FreshEntry(se.auto, se.sub)
        /\ st_pc' = "boot"
        /\ st_ret' = Ret("none", "NO", FALSE)
        /\ st_run' = NewRun
        /\ st_hist' = [NoHist EXCEPT
                          !.end = "orderly",
                          !.mem = se.mem,
                          !.reset = st_run.reset,
                          !.saved = st_run.saved,
                          !.resaved = st_run.resaved,
                          !.insync = se.auto /\ se.fp # "none" /\ ~r.error
                                     /\ (r.wrote \/ ~st_run.dirty),
                          !.wrote = r.wrote]

\* the process dies while no storage operation is running
CrashIdle ==
    /\ st_pc = "run"
    /\ Crashed(Fs, "idle", 0, fsFiles["path"])

\* the file the program finds at its very first start
InitialFiles ==
    {Absent, [ex |-> TRUE, bytes |-> DefaultsMarker]}
        \cup {[ex |-> TRUE, bytes |-> FileImage(img)] : img \in Images}

\* the sub-indexes of the two entries of main: 2 for the entry saved by
\* command only, 4 for the auto-saved one
MainSubIndexOD(auto) ==
    IF auto THEN 4 ELSE 2

StWith(auto, c) ==
    /\ fsFiles = [s \in FileSlots |-> IF s = "path" THEN c ELSE Absent]
    /\ se = FreshEntry(auto, MainSubIndexOD(auto))
    /\ st_pc = "boot"
    /\ st_ret = Ret("none", "NO", FALSE)
    /\ st_run = NewRun
    /\ st_hist = [NoHist EXCEPT !.end = "first"]

StInit ==
    \E auto \in BOOLEAN, c \in InitialFiles : StWith(auto, c)

StIdle ==
    StWith(FALSE, Absent)

(***************************************************************************)
(* CAN error monitor of one interface (CO_error.c)                         *)
(***************************************************************************)

CO_CANerror_NOACK_MAX ==
    16

CO_CANerror_LISTEN_ONLY ==
    10

\* clock ticks in one second
TicksPerSec ==
    2

\* seconds of CLOCK_MONOTONIC the model follows
MaxSeconds ==
    11

\* error class bits of an error frame's can_id, and bits of its data[1]
CAN_ERR_CRTL ==
    4

CAN_ERR_ACK ==
    32

CAN_ERR_BUSOFF ==
    64

CAN_ERR_BUSERROR ==
    128

CAN_ERR_CRTL_RX_OVERFLOW ==
    1

CAN_ERR_CRTL_TX_OVERFLOW ==
    2

CAN_ERR_CRTL_RX_WARNING ==
    4

CAN_ERR_CRTL_TX_WARNING ==
    8

CAN_ERR_CRTL_RX_PASSIVE ==
    16

CAN_ERR_CRTL_TX_PASSIVE ==
    32

\* bits of CANerrorStatus
CO_CAN_ERRTX_WARNING ==
    1

CO_CAN_ERRTX_PASSIVE ==
    2

CO_CAN_ERRTX_BUS_OFF ==
    4

CO_CAN_ERRTX_OVERFLOW ==
    8

CO_CAN_ERRRX_WARNING ==
    256

CO_CAN_ERRRX_PASSIVE ==
    512

CO_CAN_ERRRX_OVERFLOW ==
    2048

CAN_SFF_MASK ==
    2047

\* a 32 bit can_id or mask: the 29 identifier bits and the three flag bits
Word(id, err, rtr, eff) ==
    [id |-> id, err |-> err, rtr |-> rtr, eff |-> eff]

WordZero ==
    Word(0, FALSE, FALSE, FALSE)

\* 0xFFFFFFFF
WordOnes ==
    Word(2^29 - 1, TRUE, TRUE, TRUE)

WAnd(a, b) ==
    Word(BitAnd(a.id, b.id), a.err /\ b.err, a.rtr /\ b.rtr, a.eff /\ b.eff)

WXor(a, b) ==
    Word(BitXor(a.id, b.id), a.err # b.err, a.rtr # b.rtr, a.eff # b.eff)

\* clock_gettime(CLOCK_MONOTONIC) at tick t
clock_gettime(t) ==
    [sec |-> t \div TicksPerSec,
     nsec |-> (t % TicksPerSec) * (1000000000 \div TicksPerSec)]

NoTime ==
    [sec |-> 0, nsec |-> 0]

CO_CANerrorSetListenOnly(h, t) ==
    [h EXCEPT !.timestamp = clock_gettime(t), !.listenOnly = TRUE]

\* leaving listen-only with the no-ack counter set back
CO_CANerrorClearListenOnlyAndCounter(h) ==
    [h EXCEPT !.listenOnly = FALSE, !.timestamp = NoTime, !.noackCounter = 0]

CO_CANerrorClearListenOnly(h) ==
    [h EXCEPT !.listenOnly = FALSE, !.timestamp = NoTime]

CO_CANerrorBusoff(h, msg, t) ==
    IF BitAnd(msg.can_id.id, CAN_ERR_BUSOFF) # 0
    THEN [h |-> [CO_CANerrorSetListenOnly(h, t) EXCEPT
                    !.CANerrorStatus = BitOr(h.CANerrorStatus, CO_CAN_ERRTX_BUS_OFF)],
          result |-> "LISTEN_ONLY"]
    ELSE [h |-> h, result |-> "ACTIVE"]

\* a warning that leaves the status word alone
WarningStatusKept(s, passive) ==
    s

\* a mask that keeps the passive bit alone
WarningStatusMaskOnly(s, passive) ==
    BitAnd(s, passive)

\* CANerrorStatus &= 0x7FFF ^ passive: the passive bit is cleared and no
\* warning bit is set
WarningStatus(s, passive) ==
    BitAnd(s, BitXor(32767, passive))

\* the status word after a controller error frame with data[1] = d
CrtlStatus(s, d) ==
    IF BitAnd(d, CAN_ERR_CRTL_RX_PASSIVE) # 0
    THEN BitOr(s, CO_CAN_ERRRX_PASSIVE)
    ELSE IF BitAnd(d, CAN_ERR_CRTL_TX_PASSIVE) # 0
    THEN BitOr(s, CO_CAN_ERRTX_PASSIVE)
    ELSE IF BitAnd(d, CAN_ERR_CRTL_RX_OVERFLOW) # 0
    THEN BitOr(s, CO_CAN_ERRRX_OVERFLOW)
    ELSE IF BitAnd(d, CAN_ERR_CRTL_TX_OVERFLOW) # 0
    THEN BitOr(s, CO_CAN_ERRTX_OVERFLOW)
    ELSE IF BitAnd(d, CAN_ERR_CRTL_RX_WARNING) # 0
    THEN WarningStatus(s, CO_CAN_ERRRX_PASSIVE)
    ELSE IF BitAnd(d, CAN_ERR_CRTL_TX_WARNING) # 0
    THEN WarningStatus(s, CO_CAN_ERRTX_PASSIVE)
    ELSE s

CO_CANerrorCrtl(h, msg) ==
    IF BitAnd(msg.can_id.id, CAN_ERR_CRTL) # 0
    THEN [h |-> [h EXCEPT !.CANerrorStatus =
                    CrtlStatus(BitAnd(h.CANerrorStatus, BitXor(65535, CO_CAN_ERRTX_BUS_OFF)),
                               msg.data1)],
          result |-> "ACTIVE"]
    ELSE [h |-> h, result |-> "ACTIVE"]

\* the test on the incremented counter that sends the monitor to listen-only
NoackLimit(counter) ==
    counter > CO_CANerror_NOACK_MAX

CO_CANerrorNoack(h, msg, t) ==
    IF h.listenOnly
    THEN [h |-> h, result |-> "LISTEN_ONLY"]
    ELSE IF BitAnd(msg.can_id.id, CAN_ERR_ACK) # 0
         THEN IF NoackLimit(h.noackCounter + 1)
              THEN [h |-> CO_CANerrorSetListenOnly(
                              [h EXCEPT !.noackCounter = h.noackCounter + 1], t),
                    result |-> "LISTEN_ONLY"]
              ELSE [h |-> [h EXCEPT !.noackCounter = h.noackCounter + 1],
                    result |-> "ACTIVE"]
         ELSE [h |-> [h EXCEPT !.noackCounter = 0], result |-> "ACTIVE"]

CO_CANerror_init(h) ==
    [fd |-> TRUE, noackCounter |-> 0, listenOnly |-> FALSE,
     timestamp |-> NoTime, CANerrorStatus |-> 0]

\* memset(0), fd = -1
CO_CANerror_disable(h) ==
    [fd |-> FALSE, noackCounter |-> 0, listenOnly |-> FALSE,
     timestamp |-> NoTime, CANerrorStatus |-> 0]

\* a handler of received frames that only resets the counter
CO_CANerror_rxMsgCounterOnly(h) ==
    [h EXCEPT !.noackCounter = 0]

CO_CANerror_rxMsg(h) ==
    [(IF h.listenOnly THEN CO_CANerrorClearListenOnly(h) ELSE h)
        EXCEPT !.noackCounter = 0]

\* a time-out test that already fires in the tenth second
ListenOnlyOverInclusive(timestamp, nowts) ==
    timestamp.sec + CO_CANerror_LISTEN_ONLY <= nowts.sec

\* the test of CO_CANerror_txMsg that ends listen-only
ListenOnlyOver(timestamp, nowts) ==
    timestamp.sec + CO_CANerror_LISTEN_ONLY < nowts.sec

CO_CANerror_txMsg(h, t) ==
    IF h.listenOnly
    THEN IF ListenOnlyOver(h.timestamp, clock_gettime(t))
         THEN [h |-> CO_CANerrorClearListenOnly(h), result |-> "ACTIVE"]
         ELSE [h |-> h, result |-> "LISTEN_ONLY"]
    ELSE [h |-> h, result |-> "ACTIVE"]

CO_CANerror_rxMsgError(h, msg, t) ==
    LET r1 == CO_CANerrorBusoff(h, msg, t)
        r2 == CO_CANerrorCrtl(r1.h, msg)
        r3 == CO_CANerrorNoack(r2.h, msg, t)
    IN  IF r1.result # "ACTIVE"
        THEN r1
        ELSE IF r2.result # "ACTIVE"
             THEN r2
             ELSE r3

(***************************************************************************)
(* socketCAN driver (CO_driver.c): one module with at most one interface   *)
(***************************************************************************)

\* receive slots of the module
RxSize ==
    2

\* transmit buffers of the module
TxSize ==
    1

\* drop count of the socket the model follows
MaxDropped ==
    1

CAN_RTR_FLAG ==
    Word(0, FALSE, TRUE, FALSE)

CAN_EFF_FLAG ==
    Word(0, FALSE, FALSE, TRUE)

WOr(a, b) ==
    Word(BitOr(a.id, b.id), a.err \/ b.err, a.rtr \/ b.rtr, a.eff \/ b.eff)

\* struct can_frame: the can_id and, of the data, the byte the monitor reads
ErrFrame(class, d1) ==
    [can_id |-> Word(class, TRUE, FALSE, FALSE), data1 |-> d1]

DataFrame(id, rtr) ==
    [can_id |-> Word(id, FALSE, rtr, FALSE), data1 |-> 0]

FrameKind(msg) ==
    IF ~msg.can_id.err
    THEN "data"
    ELSE IF msg.can_id.id = CAN_ERR_ACK THEN "ack" ELSE "err"

\* a slot as calloc leaves it, and as CO_CANmodule_init leaves it
RxZero ==
    [ident |-> WordZero, mask |-> WordZero, cb |-> FALSE]

RxUnused ==
    [ident |-> WordZero, mask |-> WordOnes, cb |-> FALSE]

FilterZero ==
    [can_id |-> WordZero, can_mask |-> WordZero]

NoInvoked ==
    [i \in 1..RxSize |-> 0]

NoLast ==
    [op |-> "other", kind |-> "none", ok |-> TRUE, wasLO |-> FALSE,
     wrote |-> FALSE, frame |-> WordZero, invoked |-> NoInvoked,
     class |-> 0, data1 |-> 0, status0 |-> 0]

Last(op) ==
    [NoLast EXCEPT !.op = op]

\* what the raw socket hands to recvmsg: a data frame that one of the
\* installed filters lets pass (none passes when no filter is installed)
KernelPasses(kf, id) ==
    \E f \in kf : WAnd(id, f.can_mask) = WAnd(f.can_id, f.can_mask)

disableRx(m, kf, sockoptOk) ==
    IF m.CANinterfaceCount = 0
    THEN [kf |-> kf, ok |-> TRUE]
    ELSE IF sockoptOk
         THEN [kf |-> {}, ok |-> TRUE]
         ELSE [kf |-> kf, ok |-> FALSE]

\* installing every slot of the filter array, the unused ones too
setRxFiltersAll(m, rf, kf, sockoptOk) ==
    IF m.CANinterfaceCount = 0
    THEN [kf |-> kf, ok |-> TRUE]
    ELSE IF sockoptOk
         THEN [kf |-> {rf[i] : i \in 1..Len(rf)}, ok |-> TRUE]
         ELSE [kf |-> kf, ok |-> FALSE]

setRxFilters(m, rf, kf, sockoptOk) ==
    LET cpy == {rf[i] : i \in {j \in 1..Len(rf) :
                    rf[j].can_id # WordZero \/ rf[j].can_mask # WordZero}}
    IN  IF cpy = {}
        THEN disableRx(m, kf, sockoptOk)
        ELSE IF m.CANinterfaceCount = 0
             THEN [kf |-> kf, ok |-> TRUE]
             ELSE IF sockoptOk
                  THEN [kf |-> cpy, ok |-> TRUE]
                  ELSE [kf |-> kf, ok |-> FALSE]

\* the test of one slot against a received identifier
RxMatches(id, slot) ==
    WAnd(WXor(id, slot.ident), slot.mask) = WordZero

\* a search that keeps the last slot that matches
LastMatchIndex(arr, id) ==
    LET m == {i \in 1..Len(arr) : RxMatches(id, arr[i])}
    IN  IF m = {} THEN 0 ELSE CHOOSE i \in m : \A j \in m : j <= i

\* the search of CO_CANrxMsg: the first slot that matches, 0 for none
FirstMatchIndex(arr, id) ==
    LET m == {i \in 1..Len(arr) : RxMatches(id, arr[i])}
    IN  IF m = {} THEN 0 ELSE CHOOSE i \in m : \A j \in m : i <= j

\* the callbacks CO_CANrxMsg runs for a frame, per slot
CO_CANrxMsg(arr, id) ==
    LET index == FirstMatchIndex(arr, id)
    IN  [i \in 1..Len(arr) |-> IF i = index /\ arr[i].cb THEN 1 ELSE 0]

CmZero ==
    [CANnormal |-> FALSE, CANtxCount |-> 0, CANinterfaceCount |-> 0,
     CANerrorStatus |-> 0, rxDropCount |-> 0]

EhZero ==
    [fd |-> FALSE, noackCounter |-> 0, listenOnly |-> FALSE,
     timestamp |-> NoTime, CANerrorStatus |-> 0]

TxZero ==
    [bufferFull |-> FALSE]

\* CO_CANread: the drop counter of the socket, the status bit, the result
CO_CANread(m, h, readOk, dropped) ==
    IF ~readOk
    THEN [m |-> m,
          h |-> [h EXCEPT !.CANerrorStatus = BitOr(h.CANerrorStatus, CO_CAN_ERRRX_OVERFLOW)],
          ok |-> FALSE]
    ELSE [m |-> [m EXCEPT !.rxDropCount = dropped],
          h |-> IF dropped > m.rxDropCount
                THEN [h EXCEPT !.CANerrorStatus = BitOr(h.CANerrorStatus, CO_CAN_ERRRX_OVERFLOW)]
                ELSE h,
          ok |-> TRUE]

\* a test of errno that takes a full kernel queue for a hard error
SendBusyWithoutNobufs(outcome) ==
    outcome \in {"EINTR", "EAGAIN"}

\* the errno values after which CO_CANsend keeps the frame for a re-send
SendBusy(outcome) ==
    outcome \in {"EINTR", "EAGAIN", "ENOBUFS"}

\* a counter that counts every refused send, pending or not
BusyCountAlways(full, count) ==
    (count + 1) % 65536

\* CANtxCount after a refused send: a buffer that is already pending is
\* not counted again
BusyCount(full, count) ==
    IF ~full THEN (count + 1) % 65536 ELSE count

\* CO_CANsend of the single interface build on buffer b; outcome is what
\* send() does: "ok", "EINTR", "EAGAIN", "ENOBUFS" or "EIO" (any other)
SendSingle(m, h, b, outcome) ==
    LET h1 == IF b.bufferFull
              THEN [h EXCEPT !.CANerrorStatus = BitOr(h.CANerrorStatus, CO_CAN_ERRTX_OVERFLOW)]
              ELSE h
    IN  IF m.CANinterfaceCount = 0 \/ ~h.fd
        THEN [m |-> m, h |-> h, b |-> b, called |-> FALSE]
        ELSE IF outcome = "ok"
        THEN [m |-> IF b.bufferFull
                    THEN [m EXCEPT !.CANtxCount = (m.CANtxCount + 65535) % 65536]
                    ELSE m,
              h |-> h1, b |-> [b EXCEPT !.bufferFull = FALSE], called |-> TRUE]
        ELSE IF SendBusy(outcome)
        THEN [m |-> [m EXCEPT !.CANtxCount = BusyCount(b.bufferFull, m.CANtxCount)],
              h |-> h1, b |-> [b EXCEPT !.bufferFull = TRUE], called |-> TRUE]
        ELSE [m |-> m,
              h |-> [h1 EXCEPT !.CANerrorStatus = BitOr(h1.CANerrorStatus, CO_CAN_ERRTX_OVERFLOW)],
              b |-> b, called |-> TRUE]

\* what CO_CANsend of the single interface build returns
SendSingleErr(m, h, b, outcome) ==
    IF m.CANinterfaceCount = 0 \/ ~h.fd
    THEN "ILLEGAL_ARGUMENT"
    ELSE IF outcome = "ok"
    THEN IF b.bufferFull THEN "TX_OVERFLOW" ELSE "NO"
    ELSE IF SendBusy(outcome)
    THEN "TX_BUSY"
    ELSE "SYSCALL"

\* CO_CANCheckSendInterface of the multi interface build
CO_CANCheckSendInterface(m, h, b, outcome, t) ==
    LET tx == CO_CANerror_txMsg(h, t)
    IN  IF ~h.fd
        THEN [m |-> m, h |-> h, b |-> b, called |-> FALSE]
        ELSE IF tx.result = "LISTEN_ONLY"
        THEN [m |-> m, h |-> tx.h, b |-> b, called |-> FALSE]
        ELSE IF outcome = "ok"
        THEN [m |-> m, h |-> tx.h, b |-> b, called |-> TRUE]
        ELSE [m |-> m,
              h |-> [tx.h EXCEPT !.CANerrorStatus = BitOr(tx.h.CANerrorStatus, CO_CAN_ERRTX_OVERFLOW)],
              b |-> b, called |-> TRUE]

\* CO_CANsend of the multi interface build: CO_CANCheckSend over the interfaces
SendMulti(m, h, b, outcome, t) ==
    IF m.CANinterfaceCount = 0
    THEN [m |-> m, h |-> h, b |-> b, called |-> FALSE]
    ELSE CO_CANCheckSendInterface(m, h, b, outcome, t)

\* a scan that leaves the counter alone when it finds no full buffer
CountWhenNoneFullKept(count) ==
    count

\* CANtxCount after CO_CANmodule_process found no full buffer
CountWhenNoneFull(count) ==
    0

\* a scan that starts at the second buffer
FirstFullAfterFirst(tx) ==
    LET s == {i \in 2..Len(tx) : tx[i].bufferFull}
    IN  IF s = {} THEN 0 ELSE CHOOSE i \in s : \A j \in s : i <= j

\* index of the first full transmit buffer, 0 for none
FirstFull(tx) ==
    LET s == {i \in 1..Len(tx) : tx[i].bufferFull}
    IN  IF s = {} THEN 0 ELSE CHOOSE i \in s : \A j \in s : i <= j

\* ---- the operations of the driver; main_pc is where main's communication
\* ---- reset loop stands: "reset" (before CO_CANmodule_disable), "disabled",
\* ---- "config" (after CO_CANinit) and "run" (after CO_CANsetNormalMode)

\* the tick of the latest entry to listen-only after a step, 0 outside it
EntryTick(h2, set) ==
    IF ~h2.listenOnly THEN 0 ELSE IF set THEN now ELSE loEntry

CO_CANmodule_disable ==
    /\ main_pc = "reset"
    /\ cm' = [cm EXCEPT !.CANnormal = FALSE, !.CANinterfaceCount = 0]
    /\ eh' = IF cm.CANinterfaceCount > 0 THEN CO_CANerror_disable(eh) ELSE eh
    /\ kfilter' = {}
    /\ kdrop' = 0
    /\ rxFilter' = <<>>
    /\ main_pc' = "disabled"
    /\ can_last' = [Last("disable") EXCEPT !.wasLO = eh.listenOnly]
    /\ ackRun' = 0
    /\ loEntry' = 0
    /\ UNCHANGED <<multi, now, rxArray, txArray>>

\* CO_CANinit of main: CO_CANmodule_init, which in the single interface build
\* adds the interface (a failure ends the program and is left out)
CO_CANmodule_init ==
    /\ main_pc = "disabled"
    /\ cm' = [cm EXCEPT !.CANnormal = FALSE, !.CANtxCount = 0, !.CANerrorStatus = 0,
                        !.CANinterfaceCount = IF multi THEN 0 ELSE 1]
    /\ eh' = IF multi THEN eh ELSE CO_CANerror_init(eh)
    /\ rxFilter' = [i \in 1..RxSize |-> FilterZero]
    /\ rxArray' = [i \in 1..RxSize |-> RxUnused]
    /\ kfilter' = {}
    /\ kdrop' = 0
    /\ main_pc' = "config"
    /\ can_last' = NoLast
    /\ ackRun' = 0
    /\ loEntry' = 0
    /\ UNCHANGED <<multi, now, txArray>>

CO_CANmodule_addInterface ==
    /\ multi
    /\ main_pc = "config"
    /\ ~cm.CANnormal
    /\ cm.CANinterfaceCount = 0
    /\ cm' = [cm EXCEPT !.CANinterfaceCount = 1]
    /\ eh' = CO_CANerror_init(eh)
    /\ kfilter' = {}
    /\ kdrop' = 0
    /\ can_last' = NoLast
    /\ ackRun' = 0
    /\ loEntry' = 0
    /\ UNCHANGED <<multi, now, rxArray, rxFilter, txArray, main_pc>>

CO_CANrxBufferInit(index, ident, mask, rtr, sockoptOk) ==
    LET id == IF rtr
              THEN WOr(Word(BitAnd(ident, CAN_SFF_MASK), FALSE, FALSE, FALSE), CAN_RTR_FLAG)
              ELSE Word(BitAnd(ident, CAN_SFF_MASK), FALSE, FALSE, FALSE)
        mk == WOr(WOr(Word(BitAnd(mask, CAN_SFF_MASK), FALSE, FALSE, FALSE), CAN_EFF_FLAG),
                  CAN_RTR_FLAG)
        rf == [rxFilter EXCEPT ![index] = [can_id |-> id, can_mask |-> mk]]
        set == setRxFilters(cm, rf, kfilter, sockoptOk)
    IN  /\ main_pc \in {"config", "run"}
        /\ rxArray' = [rxArray EXCEPT ![index] = [ident |-> id, mask |-> mk, cb |-> TRUE]]
        /\ rxFilter' = rf
        /\ kfilter' = IF cm.CANnormal THEN set.kf ELSE kfilter
        /\ can_last' = NoLast
        /\ UNCHANGED <<multi, now, cm, eh, kdrop, txArray, main_pc, ackRun, loEntry>>

\* the stack configures its transmit buffers between CO_CANinit and
\* CO_CANsetNormalMode, and again from CO_process when an object is
\* reconfigured
CO_CANtxBufferInit(index) ==
    /\ main_pc = "config" \/ (main_pc = "run" /\ ml_pc = "stack")
    /\ txArray' = [txArray EXCEPT ![index] = [bufferFull |-> FALSE]]
    /\ can_last' = NoLast
    /\ UNCHANGED <<multi, now, cm, eh, rxArray, rxFilter, kfilter, kdrop, main_pc,
                   ackRun, loEntry>>

\* normal mode entered whatever setRxFilters returned
NormalAfterAlways(ret) ==
    TRUE

\* CANnormal after CO_CANsetNormalMode; ret: setRxFilters returned CO_ERROR_NO
NormalAfter(ret) ==
    ret

\* sockoptOk: setsockopt(CAN_RAW_FILTER) succeeds on the interface
CO_CANsetNormalMode(sockoptOk) ==
    LET set == setRxFilters(cm, rxFilter, kfilter, sockoptOk)
    IN  /\ main_pc = "config"
        /\ cm' = [cm EXCEPT !.CANnormal = NormalAfter(set.ok)]
        /\ kfilter' = set.kf
        /\ main_pc' = "run"
        /\ can_last' = [Last("normal") EXCEPT !.ok = sockoptOk]
        /\ UNCHANGED <<multi, now, eh, rxArray, rxFilter, kdrop, txArray, ackRun, loEntry>>

\* main at the start of a communication reset: CANnormal = false under the lock
ResetBegin ==
    /\ main_pc = "run"
    /\ cm' = [cm EXCEPT !.CANnormal = FALSE]
    /\ main_pc' = "reset"
    /\ can_last' = NoLast
    /\ UNCHANGED <<multi, now, eh, rxArray, rxFilter, kfilter, kdrop, txArray,
                   ackRun, loEntry>>

\* the run of consecutive processed ACK-miss frames that began in ACTIVE with
\* counter 0, after a frame of kind k has been processed
AckRunAfter(k) ==
    IF k # "ack"
    THEN 0
    ELSE IF ackRun > CO_CANerror_NOACK_MAX
         THEN ackRun
         ELSE IF ackRun > 0
         THEN ackRun + 1
         ELSE IF ~eh.listenOnly /\ eh.noackCounter = 0 THEN 1 ELSE 0

\* events: "EPOLLIN", "EPOLLERR" (also EPOLLHUP) on the interface's socket,
\* "other" for an event of another descriptor; newDrops: frames the socket
\* dropped since the last read
CO_CANrxFromEpoll(events, msg, readOk, newDrops) ==
    LET dropped == kdrop + newDrops
        rd == CO_CANread(cm, eh, readOk, dropped)
        isErr == msg.can_id.err
        er == CO_CANerror_rxMsgError(rd.h, msg, now)
        h2 == IF isErr THEN er.h ELSE CO_CANerror_rxMsg(rd.h)
        set == isErr /\ (BitAnd(msg.can_id.id, CAN_ERR_BUSOFF) # 0
                         \/ (~eh.listenOnly /\ h2.listenOnly))
        last == [Last("rx") EXCEPT !.kind = FrameKind(msg), !.ok = rd.ok,
                                   !.wasLO = eh.listenOnly,
                                   !.frame = IF isErr THEN WordZero ELSE msg.can_id]
    IN  /\ events = "other" \/ cm.CANinterfaceCount > 0
        /\ events = "EPOLLIN" => (isErr \/ KernelPasses(kfilter, msg.can_id))
        /\ events = "EPOLLIN" => dropped <= MaxDropped
        /\ IF events = "other"
           THEN /\ can_last' = NoLast
                /\ UNCHANGED <<cm, eh, kdrop, ackRun, loEntry>>
           ELSE IF events = "EPOLLERR"
           THEN /\ can_last' = NoLast
                /\ UNCHANGED <<cm, eh, kdrop, ackRun, loEntry>>
           ELSE IF rd.ok /\ cm.CANnormal
           THEN /\ cm' = rd.m
                /\ eh' = h2
                /\ kdrop' = dropped
                /\ can_last' = IF isErr
                                THEN [last EXCEPT !.class = msg.can_id.id,
                                                  !.data1 = msg.data1,
                                                  !.status0 = rd.h.CANerrorStatus]
                                ELSE [last EXCEPT !.invoked =
                                                     CO_CANrxMsg(rxArray, msg.can_id)]
                /\ ackRun' = AckRunAfter(FrameKind(msg))
                /\ loEntry' = EntryTick(h2, set)
           ELSE /\ cm' = rd.m
                /\ eh' = rd.h
                /\ kdrop' = dropped
                /\ can_last' = last
                /\ UNCHANGED <<ackRun, loEntry>>
        /\ UNCHANGED <<multi, now, rxArray, rxFilter, kfilter, txArray, main_pc>>

\* a send request of the stack on buffer index
CO_CANsend(index, outcome) ==
    LET r == IF multi
             THEN SendMulti(cm, eh, txArray[index], outcome, now)
             ELSE SendSingle(cm, eh, txArray[index], outcome)
    IN  /\ main_pc = "run"
        /\ cm' = r.m
        /\ eh' = r.h
        /\ txArray' = [txArray EXCEPT ![index] = r.b]
        /\ can_last' = [Last("send") EXCEPT !.wasLO = eh.listenOnly,
                                            !.wrote = r.called /\ outcome = "ok"]
        /\ loEntry' = EntryTick(r.h, FALSE)
        /\ UNCHANGED <<multi, now, rxArray, rxFilter, kfilter, kdrop, main_pc, ackRun>>

\* a re-send that leaves the counter alone when it clears the flag
CountBeforeResendKept(count) ==
    count

\* CANtxCount when CO_CANmodule_process has cleared the flag of the buffer it
\* sends again
CountBeforeResend(count) ==
    (count + 65535) % 65536

CO_CANmodule_process(outcome) ==
    LET m1 == [cm EXCEPT !.CANerrorStatus = eh.CANerrorStatus]
        i == FirstFull(txArray)
        r == SendSingle([m1 EXCEPT !.CANtxCount = CountBeforeResend(m1.CANtxCount)], eh,
                        [txArray[i] EXCEPT !.bufferFull = FALSE], outcome)
        last == [Last("process") EXCEPT !.wasLO = eh.listenOnly]
    IN  /\ main_pc = "run"
        /\ IF cm.CANinterfaceCount = 0
           THEN /\ can_last' = last
                /\ UNCHANGED <<cm, eh, txArray>>
           ELSE IF multi \/ cm.CANtxCount = 0
           THEN /\ cm' = m1
                /\ can_last' = last
                /\ UNCHANGED <<eh, txArray>>
           ELSE IF i = 0
           THEN /\ cm' = [m1 EXCEPT !.CANtxCount = CountWhenNoneFull(m1.CANtxCount)]
                /\ can_last' = last
                /\ UNCHANGED <<eh, txArray>>
           ELSE /\ cm' = r.m
                /\ eh' = r.h
                /\ txArray' = [txArray EXCEPT ![i] = r.b]
                /\ can_last' = [last EXCEPT !.wrote = r.called /\ outcome = "ok"]
        /\ UNCHANGED <<multi, now, rxArray, rxFilter, kfilter, kdrop, main_pc, ackRun,
                       loEntry>>

\* CLOCK_MONOTONIC advances by one tick
Tick ==
    /\ now < (MaxSeconds + 1) * TicksPerSec - 1
    /\ now' = now + 1
    /\ can_last' = NoLast
    /\ UNCHANGED <<multi, cm, eh, rxArray, rxFilter, kfilter, kdrop, txArray, main_pc,
                   ackRun, loEntry>>

\* the module as CO_new leaves it, before main's first CO_CANmodule_disable
CanInitWith(m) ==
    /\ multi = m
    /\ now = 0
    /\ cm = CmZero
    /\ eh = EhZero
    /\ rxArray = [i \in 1..RxSize |-> RxZero]
    /\ rxFilter = <<>>
    /\ kfilter = {}
    /\ kdrop = 0
    /\ txArray = [i \in 1..TxSize |-> TxZero]
    /\ main_pc = "reset"
    /\ can_last = NoLast
    /\ ackRun = 0
    /\ loEntry = 0

CanInit ==
    \E m \in BOOLEAN : CanInitWith(m)

CanIdle ==
    CanInitWith(FALSE)

(***************************************************************************)
(* Command gateway of the event loop (CO_epoll_processGtw)                 *)
(***************************************************************************)

\* most connections waiting in the listener's queue
MaxBacklog ==
    2

\* most connection descriptors the process holds open
MaxConns ==
    2

\* most bytes one read() returns
MaxChunk ==
    2

\* most bytes of a command line before its newline
MaxLine ==
    2

\* largest ep->timeDifference_us, in ticks
MaxTimeDiff ==
    1

\* the largest socketTimeout_us the gateway is created with, in ticks
MaxIdle ==
    2

\* descriptor numbers: -1 for none, stdin, the listener, the connections
NoFd ==
    0 - 1

STDIN_FILENO ==
    0

ListenerFd ==
    3

ConnFds ==
    (ListenerFd + 1)..(ListenerFd + MaxConns)

\* the bytes a client sends: '[', '#', a letter, a space, a newline
GtwBytes ==
    {"[", "#", "a", " ", "\n"}

\* isgraph(): printing characters other than the space
isgraph(c) ==
    c \in {"[", "#", "a"}

\* const char sequence[] = "[0] "
GtwSequence ==
    <<"[", "0", "]", " ">>

GtwNoLast ==
    [op |-> "none", act |-> FALSE, tmr |-> 0, idleClosed |-> FALSE, fd |-> NoFd,
     accepted |-> NoFd, held |-> {}]

\* CO_epoll_createGtw; freshCommand is set by CO_epoll_initCANopenGtw
CO_epoll_createGtw(commandInterface, socketTimeout_us) ==
    /\ gw = [commandInterface |-> commandInterface,
             socketTimeout_us |-> socketTimeout_us,
             socketTimeoutTmr_us |-> 0,
             gtwa_fdSocket |-> IF commandInterface \in {"LOCAL", "TCP"}
                               THEN ListenerFd ELSE NoFd,
             gtwa_fd |-> IF commandInterface = "STDIO" THEN STDIN_FILENO ELSE NoFd,
             freshCommand |-> TRUE]
    /\ gk = [armed |-> commandInterface \in {"LOCAL", "TCP"},
             backlog |-> 0,
             open |-> {},
             watched |-> {}]

GtwGhostsIdle ==
    /\ gw_last = GtwNoLast
    /\ gw_raw = <<>>
    /\ gw_fed = <<>>
    /\ gw_done = {}

GtwIdle ==
    /\ CO_epoll_createGtw("DISABLED", 0)
    /\ GtwGhostsIdle

GtwInit ==
    /\ \E c \in {"LOCAL", "TCP"}, t \in {0, MaxIdle} : CO_epoll_createGtw(c, t)
    /\ GtwGhostsIdle

StdioInit ==
    /\ CO_epoll_createGtw("STDIO", 0)
    /\ GtwGhostsIdle

\* close(fd): the descriptor leaves the process and every epoll set
close(k, fd) ==
    [k EXCEPT !.open = @ \ {fd}, !.watched = @ \ {fd}]

\* epoll_ctl(EPOLL_CTL_DEL)
epoll_ctl_del(k, fd) ==
    [k EXCEPT !.watched = @ \ {fd}]

\* epoll_ctl(EPOLL_CTL_MOD, EPOLLIN | EPOLLONESHOT) on the listener
socketAcceptEnableForEpoll(k) ==
    [k EXCEPT !.armed = TRUE]

\* accept4(): the lowest free descriptor for the first waiting connection,
\* -1 when that connection is gone again (~acceptOk) or no descriptor is free
accept4(k, acceptOk) ==
    LET free == ConnFds \ k.open
    IN  IF acceptOk /\ k.backlog > 0 /\ free # {}
        THEN CHOOSE fd \in free : \A o \in free : fd <= o
        ELSE NoFd

\* the branch for an EPOLLIN event of the listener
GtwAccept(g, k, acceptOk, addOk) ==
    LET fd == accept4(k, acceptOk)
        k0 == [k EXCEPT !.armed = FALSE,
                        !.backlog = IF @ > 0 /\ (fd # NoFd \/ ~acceptOk) THEN @ - 1 ELSE @]
        k1 == IF fd # NoFd THEN [k0 EXCEPT !.open = @ \cup {fd}] ELSE k0
        k2 == IF fd # NoFd /\ addOk THEN [k1 EXCEPT !.watched = @ \cup {fd}] ELSE k1
        fail == fd = NoFd \/ ~addOk
    IN  [g |-> [g EXCEPT !.gtwa_fd = fd,
                         !.socketTimeoutTmr_us = IF fd # NoFd THEN 0 ELSE @],
         k |-> IF fail THEN socketAcceptEnableForEpoll(k2) ELSE k2,
         fed |-> <<>>]

\* the test that decides whether the sequence goes in front of what was read
NeedsSequence(first, room, closed, fresh) ==
    first # "[" /\ room /\ isgraph(first) /\ first # "#" /\ closed /\ fresh

\* the branch for an EPOLLIN event of gtwa_fd; rd: what read() did, "data"
\* (buf, at least one byte), "eof" (0 bytes), "EAGAIN", "error", or
\* "nospace" (the parser has no room, nothing is looked at); room: the
\* parser has room for the sequence too; first, last: buf[0] and buf[s - 1]
\* as the code reads them (any byte when nothing was read)
GtwRead(g, k, rd, buf, first, last, room) ==
    LET closed == last = "\n"
        stdio == g.commandInterface = "STDIO"
        got == rd \in {"data", "eof"}
        pre == IF stdio /\ got /\ NeedsSequence(first, room, closed, g.freshCommand)
               THEN GtwSequence ELSE <<>>
        hangup == ~stdio /\ rd = "eof"
        k1 == IF hangup
              THEN socketAcceptEnableForEpoll(close(epoll_ctl_del(k, g.gtwa_fd), g.gtwa_fd))
              ELSE k
    IN  [g |-> [g EXCEPT !.freshCommand = IF stdio /\ got THEN closed ELSE @,
                         !.gtwa_fd = IF hangup THEN NoFd ELSE @,
                         !.socketTimeoutTmr_us = 0],
         k |-> k1,
         fed |-> IF rd = "data" THEN pre \o buf ELSE pre]

\* a hang-up that is only logged
GtwHangupIgnored(g, k) ==
    [g |-> g, k |-> k, fed |-> <<>>]

\* the branch for EPOLLERR or EPOLLHUP without EPOLLIN
GtwHangup(g, k) ==
    [g |-> g, k |-> close(k, g.gtwa_fd), fed |-> <<>>]

\* the idle timer is past the time-out, reached as well
IdleOverInclusive(tmr, timeout) ==
    tmr >= timeout

\* the idle timer is past the time-out
IdleOver(tmr, timeout) ==
    tmr > timeout

\* the idle time-out at the end of CO_epoll_processGtw
GtwTimeout(g, k, dt) ==
    IF g.socketTimeout_us > 0 /\ g.gtwa_fdSocket > 0 /\ g.gtwa_fd > 0
    THEN IF IdleOver(g.socketTimeoutTmr_us, g.socketTimeout_us)
         THEN [g |-> [g EXCEPT !.gtwa_fd = NoFd],
               k |-> socketAcceptEnableForEpoll(close(epoll_ctl_del(k, g.gtwa_fd), g.gtwa_fd)),
               closed |-> TRUE]
         ELSE [g |-> [g EXCEPT !.socketTimeoutTmr_us = @ + dt], k |-> k, closed |-> FALSE]
    ELSE [g |-> g, k |-> k, closed |-> FALSE]

\* the lines of a byte stream: those a newline has ended and the rest
RECURSIVE SplitLines(_, _, _)
SplitLines(bytes, cur, done) ==
    IF bytes = <<>>
    THEN [done |-> done, rest |-> cur]
    ELSE IF Head(bytes) = "\n"
         THEN SplitLines(Tail(bytes), <<>>, Append(done, Append(cur, "\n")))
         ELSE SplitLines(Tail(bytes), Append(cur, Head(bytes)), done)

\* one call of CO_epoll_processGtw. ev is what CO_epoll_wait left in ep->ev
\* with epoll_new set: "none" (no new event, or one of another descriptor),
\* "listener" (EPOLLIN of gtwa_fdSocket), "in" (EPOLLIN of gtwa_fd) or "hup"
\* (EPOLLERR or EPOLLHUP alone of gtwa_fd); dt is ep->timeDifference_us
CO_epoll_processGtw(ev, rd, buf, first, last, room, acceptOk, addOk, dt) ==
    LET b == IF ev = "listener" THEN GtwAccept(gw, gk, acceptOk, addOk)
             ELSE IF ev = "in" THEN GtwRead(gw, gk, rd, buf, first, last, room)
             ELSE IF ev = "hup" THEN GtwHangup(gw, gk)
             ELSE [g |-> gw, k |-> gk, fed |-> <<>>]
        t == GtwTimeout(b.g, b.k, dt)
        raw == SplitLines(IF ev = "in" /\ rd = "data" THEN buf ELSE <<>>, gw_raw, <<>>)
        fed == SplitLines(b.fed, gw_fed, <<>>)
    IN  /\ ev = "listener" => gw.gtwa_fdSocket # NoFd /\ gk.armed /\ gk.backlog > 0
        /\ ev = "in" => \/ gw.gtwa_fd = STDIN_FILENO /\ gw.commandInterface = "STDIO"
                        \/ gw.gtwa_fd \in gk.watched
        /\ ev = "hup" => gw.gtwa_fd \in gk.watched
        /\ Len(raw.rest) <= MaxLine
        /\ Len(fed.rest) <= MaxLine + Len(GtwSequence)
        /\ gw' = t.g
        /\ gk' = t.k
        /\ gw_last' = [op |-> ev,
                       act |-> b.g.gtwa_fdSocket > 0 /\ b.g.gtwa_fd > 0,
                       tmr |-> b.g.socketTimeoutTmr_us,
                       idleClosed |-> t.closed,
                       fd |-> b.g.gtwa_fd,
                       accepted |-> IF ev = "listener" THEN b.g.gtwa_fd ELSE NoFd,
                       held |-> gk.open]
        /\ gw_raw' = raw.rest
        /\ gw_fed' = fed.rest
        /\ gw_done' = {[raw |-> raw.done[i], fed |-> fed.done[i]] : i \in 1..Len(raw.done)}
        /\ ep' = IF ev \in {"listener", "in"} THEN [ep EXCEPT !.epoll_new = FALSE] ELSE ep
        /\ UNCHANGED <<ep_pc, evCount, kt, otherReady, ep_src, ep_val, wakeRet, ep_settime>>

\* a client connects: the connection waits in the listener's queue
ClientConnects ==
    /\ gw.gtwa_fdSocket # NoFd
    /\ gk.backlog < MaxBacklog
    /\ gk' = [gk EXCEPT !.backlog = @ + 1]
    /\ gw_last' = GtwNoLast
    /\ UNCHANGED <<gw, gw_raw, gw_fed, gw_done>>

(***************************************************************************)
(* Threads: the inner loop of main, rt_thread and the lock of the object   *)
(* dictionary (CO_main_basic.c, CO_epoll_processRT, CO_epoll_processMain)  *)
(***************************************************************************)

CO_STORAGE_AUTO_INTERVAL ==
    60000000

\* most frames counted as waiting for a re-send
MaxTxCount ==
    2

\* values of epMain.timeDifference_us the storage timer is advanced by
StorageTimeDiffs ==
    {CO_STORAGE_AUTO_INTERVAL \div 2}

NoTx ==
    [op |-> "none", idx |-> 0, outcome |-> "ok", count |-> 0, full |-> {},
     status |-> 0, err |-> "none"]

\* what a send or re-send finds: the counter and the full buffers
TxBefore(op, idx, outcome) ==
    [op |-> op, idx |-> idx, outcome |-> outcome, count |-> cm.CANtxCount,
     full |-> {i \in 1..Len(txArray) : txArray[i].bufferFull},
     status |-> eh.CANerrorStatus, err |-> "none"]

NoS5 ==
    [stage |-> 0, idx |-> 0]

NoRt ==
    [step |-> "none", lock |-> "none", normal |-> FALSE, resetting |-> FALSE]

\* tick: what the last auto-save tick did when the memory stayed as it was
\* ("wrote", "error", "clean"); prev: the same of the tick directly before
\* it; "none" otherwise
NoTick ==
    [tick |-> "none", prev |-> "none"]

ThrGhostsIdle ==
    /\ au_hist = NoTick
    /\ ml_trace = <<>>
    /\ tx_hist = NoTx
    /\ s5 = NoS5
    /\ rt_steps = <<>>
    /\ rt_last = NoRt
    /\ resetting = FALSE

\* no auto-save tick yet
NoEm ==
    [emit |-> "none", before |-> {}, mask |-> {}, told |-> FALSE, unconfigured |-> FALSE]

\* a thread that is not inside CO_CANsend
NoSnd ==
    [pc |-> "idle", idx |-> 0, o |-> "none", reg |-> 0]

\* main before its loops, in a build and with the node id configured or left to LSS
ThrWithNode(single, unconfigured) ==
    /\ singleThread = single
    /\ snd = [t \in {"main", "rt"} |-> NoSnd]
    /\ sockFull = FALSE
    /\ ml_pc = "wait"
    /\ storageIntervalTimer = 0
    /\ storageErrorPrev = {}
    /\ nodeIdUnconfigured = unconfigured
    /\ emAutoSave = FALSE
    /\ em_last = NoEm
    /\ CO_endProgram = FALSE
    /\ loop_in = [main |-> FALSE, rt |-> FALSE]
    /\ end_hist = [main |-> 0, rt |-> 0]
    /\ odLock = "none"
    /\ rt_pc = "off"
    /\ ThrGhostsIdle

ThrWith(single) ==
    ThrWithNode(single, FALSE)

ThrIdle ==
    ThrWith(FALSE)

\* the thread that calls CO_epoll_processRT
RtCaller ==
    IF singleThread THEN "main" ELSE "rt"

\* a lock that is taken whoever holds it
CO_LOCK_OD_NoWait(owner) ==
    TRUE

\* pthread_mutex_lock(&CO_OD_mutex) returns once nobody holds the mutex
CO_LOCK_OD(owner) ==
    owner = "none"

\* ---- CO_epoll_processRT(ep, co, realtime), realtime = ~singleThread; ep
\* ---- is the epoll object of the calling thread

\* the CAN part: an event of the CAN socket is taken, any other is left
RtRxAt(at, events, msg) ==
    /\ rt_pc = at
    /\ IF ep.epoll_new
       THEN /\ CO_CANrxFromEpoll(events, msg, TRUE, 0)
            /\ ep' = IF events = "other" THEN ep ELSE [ep EXCEPT !.epoll_new = FALSE]
            /\ otherReady' = (otherReady /\ events = "other")
       ELSE /\ events = "other"
            /\ UNCHANGED <<canVars, ep, otherReady>>
    /\ rt_pc' = IF singleThread \/ ep.timerEvent THEN "lock"
                ELSE "last"
    /\ UNCHANGED <<ep_pc, evCount, kt, ep_src, ep_val, wakeRet, ep_settime>>
    /\ UNCHANGED <<stVars, gtwVars, au_hist, singleThread, snd, sockFull, ml_pc, storageIntervalTimer, emVars, endVars, odLock,
                   ml_trace, tx_hist, s5, rt_steps, rt_last, resetting>>

RtRxMsg(events, msg) ==
    RtRxAt("rx", events, msg)

RtRx(events) ==
    RtRxMsg(events, DataFrame(0, FALSE))

\* ---- the same call in two steps, beside main's communication reset.
\* ---- rt_pc "rxin": rt_thread is inside CO_CANrxFromEpoll and has found its
\* ---- interface in the list; "rxfreed": it still is, and main has freed the
\* ---- list and closed the socket since

\* the first test of CO_CANrxFromEpoll and the look-up of the interface
RtRxEnter ==
    /\ ~singleThread
    /\ rt_pc = "rx"
    /\ ep.epoll_new
    /\ cm.CANinterfaceCount > 0
    /\ rt_pc' = "rxin"
    /\ UNCHANGED <<epVars, stVars, canVars, gtwVars, au_hist, singleThread, snd, sockFull, ml_pc,
                   storageIntervalTimer, emVars, endVars, odLock, ml_trace, tx_hist, s5,
                   rt_steps, rt_last, resetting>>

\* the rest of the call on a module nobody has touched
RtRxFinish(events, msg) ==
    RtRxAt("rxin", events, msg)

\* the rest of the call on an interface that was freed: the read of freed
\* memory and of a closed descriptor gives nothing, or the thread dies
RtRxFreed(outcome) ==
    /\ rt_pc = "rxfreed"
    /\ rt_pc' = CASE outcome = "nothing" -> (IF ep.timerEvent THEN "lock" ELSE "last")
                  [] outcome = "crash" -> "crashed"
    /\ UNCHANGED <<epVars, stVars, canVars, gtwVars, au_hist, singleThread, snd, sockFull, ml_pc,
                   storageIntervalTimer, emVars, endVars, odLock, ml_trace, tx_hist, s5,
                   rt_steps, rt_last, resetting>>

\* CO_CANmodule_disable of the communication reset; no lock is held and
\* rt_thread is wherever it is
MainDisable ==
    /\ CO_CANmodule_disable
    /\ rt_pc' = IF rt_pc = "rxin" THEN "rxfreed" ELSE rt_pc
    /\ UNCHANGED <<epVars, stVars, gtwVars, au_hist, singleThread, snd, sockFull, ml_pc,
                   storageIntervalTimer, emVars, endVars, odLock, ml_trace, tx_hist, s5,
                   rt_steps, rt_last, resetting>>

RtLock ==
    /\ rt_pc = "lock"
    /\ CO_LOCK_OD(odLock)
    /\ odLock' = RtCaller
    /\ rt_pc' = "check"
    /\ UNCHANGED <<epVars, stVars, canVars, gtwVars, au_hist, singleThread, snd, sockFull, ml_pc,
                   storageIntervalTimer, emVars, endVars, ml_trace, tx_hist, s5, rt_steps, rt_last,
                   resetting>>

\* if (!co->nodeIdUnconfigured && co->CANmodule->CANnormal), with a
\* configured node id
RtCheck ==
    /\ rt_pc = "check"
    /\ rt_pc' = IF ~nodeIdUnconfigured /\ cm.CANnormal THEN "sync" ELSE "unlock"
    /\ rt_steps' = <<>>
    /\ UNCHANGED <<epVars, stVars, canVars, gtwVars, au_hist, singleThread, snd, sockFull, ml_pc,
                   storageIntervalTimer, emVars, endVars, odLock, ml_trace, tx_hist, s5, rt_last,
                   resetting>>

RtRecord(step) ==
    /\ rt_steps' = Append(rt_steps, step)
    /\ rt_last' = [step |-> step, lock |-> odLock, normal |-> cm.CANnormal,
                   resetting |-> resetting]

\* the object may ask for an earlier call through pTimerNext_us, which is
\* NULL in the real-time thread
RtTimerNext ==
    /\ \E v \in {ep.timerNext_us, TMR_THREAD_INTERVAL_US} :
          ep' = IF singleThread /\ v < ep.timerNext_us
                THEN [ep EXCEPT !.timerNext_us = v]
                ELSE ep
    /\ UNCHANGED <<ep_pc, evCount, kt, otherReady, ep_src, ep_val, wakeRet, ep_settime>>

CO_process_SYNC ==
    /\ rt_pc = "sync"
    /\ RtRecord("SYNC")
    /\ RtTimerNext
    /\ rt_pc' = "rpdo"
    /\ UNCHANGED <<stVars, canVars, gtwVars, au_hist, singleThread, snd, sockFull, ml_pc, storageIntervalTimer, emVars, endVars,
                   odLock, ml_trace, tx_hist, s5, resetting>>

CO_process_RPDO ==
    /\ rt_pc = "rpdo"
    /\ RtRecord("RPDO")
    /\ RtTimerNext
    /\ rt_pc' = "tpdo"
    /\ UNCHANGED <<stVars, canVars, gtwVars, au_hist, singleThread, snd, sockFull, ml_pc, storageIntervalTimer, emVars, endVars,
                   odLock, ml_trace, tx_hist, s5, resetting>>

\* a TPDO that is due is sent
CO_process_TPDO(due, index, outcome) ==
    /\ rt_pc = "tpdo"
    /\ RtRecord("TPDO")
    /\ IF due
       THEN /\ cm.CANtxCount < MaxTxCount
            /\ CO_CANsend(index, outcome)
            /\ tx_hist' = NoTx
            /\ s5' = NoS5
       ELSE UNCHANGED <<canVars, tx_hist, s5>>
    /\ rt_pc' = "unlock"
    /\ UNCHANGED <<epVars, stVars, gtwVars, au_hist, singleThread, snd, sockFull, ml_pc, storageIntervalTimer, emVars, endVars,
                   odLock, ml_trace, resetting>>

\* CO_UNLOCK_OD and the return: to the next phase of main's loop, or to
\* CO_epoll_processLast of rt_thread
RtUnlock ==
    /\ rt_pc = "unlock"
    /\ odLock' = "none"
    /\ rt_pc' = IF singleThread THEN "off" ELSE "last"
    /\ ml_pc' = IF singleThread THEN "gtw" ELSE ml_pc
    /\ ml_trace' = IF singleThread THEN Append(ml_trace, "rt") ELSE ml_trace
    /\ UNCHANGED <<epVars, stVars, canVars, gtwVars, au_hist, singleThread, snd, sockFull, storageIntervalTimer, emVars, endVars,
                   tx_hist, s5, rt_steps, rt_last, resetting>>

\* ---- rt_thread: CO_epoll_wait, CO_epoll_processRT, CO_epoll_processLast
\* ---- on its own epoll object

pthread_create_rt ==
    /\ ~singleThread
    /\ main_pc = "config"
    /\ rt_pc = "off"
    /\ rt_pc' = "wait"
    /\ UNCHANGED <<epVars, stVars, canVars, gtwVars, au_hist, singleThread, snd, sockFull, ml_pc,
                   storageIntervalTimer, emVars, endVars, odLock, ml_trace, tx_hist, s5, rt_steps,
                   rt_last, resetting>>

\* CO_epoll_wait(&epRT) returns for src
RtWaitOn(src) ==
    /\ ~singleThread
    /\ rt_pc = "wait"
    /\ WaitReturn(src)
    /\ rt_pc' = "rx"
    /\ UNCHANGED <<stVars, canVars, gtwVars, au_hist, singleThread, snd, sockFull, ml_pc, storageIntervalTimer,
                   emVars, odLock, ml_trace, tx_hist, s5, rt_steps, rt_last, resetting>>

\* the top of rt_thread's loop and its wait while the program runs
RtWait ==
    /\ ~CO_endProgram
    /\ \E src \in {"eintr", "error", "event", "timer", "other"} : RtWaitOn(src)
    /\ UNCHANGED endVars

RtLast ==
    /\ rt_pc = "last"
    /\ CO_epoll_processLast
    /\ rt_pc' = "wait"
    /\ UNCHANGED <<stVars, canVars, gtwVars, au_hist, singleThread, snd, sockFull, ml_pc, storageIntervalTimer, emVars, endVars,
                   odLock, ml_trace, tx_hist, s5, rt_steps, rt_last, resetting>>

\* ---- main at a communication reset with rt_thread running: CO_LOCK_OD,
\* ---- CANnormal = false, CO_UNLOCK_OD; then CO_CANmodule_disable, CO_CANinit
\* ---- and, with the thread created, CO_CANsetNormalMode

MainLockOD ==
    /\ main_pc = "run"
    /\ ml_pc = "wait"
    /\ ~CO_endProgram /\ ~loop_in.main
    /\ CO_LOCK_OD(odLock)
    /\ odLock' = "main"
    /\ main_pc' = "locked"
    /\ can_last' = NoLast
    /\ UNCHANGED <<multi, now, cm, eh, rxArray, rxFilter, kfilter, kdrop, txArray,
                   ackRun, loEntry>>
    /\ UNCHANGED <<epVars, stVars, gtwVars, au_hist, singleThread, snd, sockFull, ml_pc, storageIntervalTimer, emVars, endVars,
                   rt_pc, ml_trace, tx_hist, s5, rt_steps, rt_last, resetting>>

MainClearNormal ==
    /\ main_pc = "locked"
    /\ cm' = [cm EXCEPT !.CANnormal = FALSE]
    /\ main_pc' = "cleared"
    /\ resetting' = TRUE
    /\ can_last' = NoLast
    /\ UNCHANGED <<multi, now, eh, rxArray, rxFilter, kfilter, kdrop, txArray,
                   ackRun, loEntry>>
    /\ UNCHANGED <<epVars, stVars, gtwVars, au_hist, singleThread, snd, sockFull, ml_pc, storageIntervalTimer, emVars, endVars,
                   odLock, rt_pc, ml_trace, tx_hist, s5, rt_steps, rt_last>>

MainUnlockOD ==
    /\ main_pc = "cleared"
    /\ odLock' = "none"
    /\ main_pc' = "reset"
    /\ can_last' = NoLast
    /\ UNCHANGED <<multi, now, cm, eh, rxArray, rxFilter, kfilter, kdrop, txArray,
                   ackRun, loEntry>>
    /\ UNCHANGED <<epVars, stVars, gtwVars, au_hist, singleThread, snd, sockFull, ml_pc, storageIntervalTimer, emVars, endVars,
                   rt_pc, ml_trace, tx_hist, s5, rt_steps, rt_last, resetting>>

MainSetNormalMode(sockoptOk) ==
    /\ singleThread \/ rt_pc # "off"
    /\ CO_CANsetNormalMode(sockoptOk)
    /\ resetting' = (resetting /\ ~cm'.CANnormal)
    /\ UNCHANGED <<epVars, stVars, gtwVars, au_hist, singleThread, snd, sockFull, ml_pc, storageIntervalTimer, emVars, endVars,
                   odLock, rt_pc, ml_trace, tx_hist, s5, rt_steps, rt_last>>

\* ---- the inner loop of main, one action per call in the order of the code;
\* ---- ml_pc: "wait", "rt" (single thread build), "gtw", "main" (entry of
\* ---- CO_process), "stack" (its objects), "tail" (the rest of
\* ---- CO_epoll_processMain), "last", "auto" (the storage block)

MainWait ==
    /\ main_pc = "run"
    /\ st_pc = "run"
    /\ ml_pc = "wait"
    /\ ~CO_endProgram
    /\ CO_epoll_wait
    /\ ml_pc' = IF singleThread THEN "rt" ELSE "gtw"
    /\ rt_pc' = IF singleThread THEN "rx" ELSE rt_pc
    /\ ml_trace' = <<"wait">>
    /\ s5' = IF s5.stage = 3 THEN [s5 EXCEPT !.stage = 4] ELSE NoS5
    /\ UNCHANGED <<stVars, canVars, gtwVars, au_hist, singleThread, snd, sockFull, storageIntervalTimer, emVars, endVars, odLock,
                   tx_hist, rt_steps, rt_last, resetting>>

\* CO_epoll_processGtw(&epGtw, CO, &epMain) with the command interface left
\* disabled
MainGtw ==
    /\ ml_pc = "gtw"
    /\ CO_epoll_processGtw("none", "EAGAIN", <<>>, "a", "a", TRUE, TRUE, TRUE, 0)
    /\ ml_pc' = "main"
    /\ ml_trace' = Append(ml_trace, "gtw")
    /\ UNCHANGED <<stVars, canVars, au_hist, singleThread, snd, sockFull, storageIntervalTimer, emVars, endVars, odLock, rt_pc,
                   tx_hist, s5, rt_steps, rt_last, resetting>>

\* CO_process begins with CO_CANmodule_process
MainProcessCAN(outcome) ==
    /\ ml_pc = "main"
    /\ CO_CANmodule_process(outcome)
    /\ tx_hist' = TxBefore("process", FirstFull(txArray), outcome)
    /\ s5' = IF s5.stage = 4 /\ outcome = "ok" THEN [s5 EXCEPT !.stage = 5] ELSE NoS5
    /\ ml_pc' = "stack"
    /\ UNCHANGED <<epVars, stVars, gtwVars, au_hist, singleThread, snd, sockFull, storageIntervalTimer, emVars, endVars, odLock,
                   rt_pc, ml_trace, rt_steps, rt_last, resetting>>

\* an object of CO_process sends a frame
MainStackSend(index, outcome) ==
    /\ ml_pc = "stack"
    /\ cm.CANtxCount < MaxTxCount
    /\ CO_CANsend(index, outcome)
    /\ tx_hist' = NoTx
    /\ s5' = IF outcome = "ENOBUFS" /\ cm.CANtxCount = 0
             THEN [stage |-> 1, idx |-> index]
             ELSE NoS5
    /\ ml_pc' = "tail"
    /\ UNCHANGED <<epVars, stVars, gtwVars, au_hist, singleThread, snd, sockFull, storageIntervalTimer, emVars, endVars, odLock,
                   rt_pc, ml_trace, rt_steps, rt_last, resetting>>

\* an object of CO_process is reconfigured
MainStackInit(index) ==
    /\ ml_pc = "stack"
    /\ CO_CANtxBufferInit(index)
    /\ tx_hist' = NoTx
    /\ s5' = NoS5
    /\ ml_pc' = "tail"
    /\ UNCHANGED <<epVars, stVars, gtwVars, au_hist, singleThread, snd, sockFull, storageIntervalTimer, emVars, endVars, odLock,
                   rt_pc, ml_trace, rt_steps, rt_last, resetting>>

\* the objects of CO_process send nothing; lower: one of them asks for an
\* earlier call
MainStackIdle(lower) ==
    /\ ml_pc = "stack"
    /\ IF lower THEN LowerTimerNext ELSE UNCHANGED epVars
    /\ s5' = NoS5
    /\ ml_pc' = "tail"
    /\ UNCHANGED <<stVars, canVars, gtwVars, au_hist, singleThread, snd, sockFull, storageIntervalTimer, emVars, endVars, odLock,
                   rt_pc, ml_trace, tx_hist, rt_steps, rt_last, resetting>>

\* a test that never asks for the early call
NeedsSendDelayNever(count, next) ==
    FALSE

\* the test of CO_epoll_processMain after CO_process
NeedsSendDelay(count, next) ==
    count > 0 /\ next > CANSEND_DELAY_US

MainTail ==
    /\ ml_pc = "tail"
    /\ ep' = IF NeedsSendDelay(cm.CANtxCount, ep.timerNext_us)
             THEN [ep EXCEPT !.timerNext_us = CANSEND_DELAY_US]
             ELSE ep
    /\ s5' = IF s5.stage = 1 THEN [s5 EXCEPT !.stage = 2] ELSE NoS5
    /\ ml_pc' = "last"
    /\ ml_trace' = Append(ml_trace, "main")
    /\ UNCHANGED <<ep_pc, evCount, kt, otherReady, ep_src, ep_val, wakeRet, ep_settime>>
    /\ UNCHANGED <<stVars, canVars, gtwVars, au_hist, singleThread, snd, sockFull, storageIntervalTimer, emVars, endVars, odLock,
                   rt_pc, tx_hist, rt_steps, rt_last, resetting>>

MainLast ==
    /\ ml_pc = "last"
    /\ CO_epoll_processLast
    /\ s5' = IF s5.stage = 2 THEN [s5 EXCEPT !.stage = 3] ELSE NoS5
    /\ ml_pc' = "auto"
    /\ ml_trace' = Append(ml_trace, "last")
    /\ UNCHANGED <<stVars, canVars, gtwVars, au_hist, singleThread, snd, sockFull, storageIntervalTimer, emVars, endVars, odLock,
                   rt_pc, tx_hist, rt_steps, rt_last, resetting>>

\* the storage block while the interval has not elapsed
MainAutoWait(dt) ==
    /\ ml_pc = "auto"
    /\ storageIntervalTimer < CO_STORAGE_AUTO_INTERVAL
    /\ storageIntervalTimer' = storageIntervalTimer + dt
    /\ ml_pc' = "wait"
    /\ UNCHANGED <<epVars, stVars, canVars, gtwVars, au_hist, singleThread, snd, sockFull, emVars, endVars, odLock, rt_pc,
                   ml_trace, tx_hist, s5, rt_steps, rt_last, resetting>>

\* mask != storageErrorPrev && !CO->nodeIdUnconfigured
MaskChanged(mask, prev, unconfigured) ==
    mask # prev /\ ~unconfigured

\* what the tick hands to the emergency object: CO_errorReport, CO_errorReset
\* or nothing
EmEmit(mask, prev, unconfigured) ==
    IF MaskChanged(mask, prev, unconfigured)
    THEN IF mask # {} THEN "report" ELSE "reset"
    ELSE "none"

\* the error condition of the emergency object after that
EmAfter(active, emit) ==
    CASE emit = "report" -> TRUE
      [] emit = "reset" -> FALSE
      [] OTHER -> active

\* CO_CANopenInit in the communication reset: the node id is valid, or it is
\* left to LSS and the node stays unconfigured
CO_CANopenInit(unconfigured) ==
    /\ main_pc = "config"
    /\ nodeIdUnconfigured' = unconfigured
    /\ UNCHANGED <<epVars, stVars, canVars, gtwVars, au_hist, singleThread, snd, sockFull, ml_pc,
                   storageIntervalTimer, storageErrorPrev, emAutoSave, em_last, endVars,
                   odLock, rt_pc, ml_trace, tx_hist, s5, rt_steps, rt_last, resetting>>

\* the storage block once it has
MainAutoTick(ioError) ==
    /\ ml_pc = "auto"
    /\ storageIntervalTimer >= CO_STORAGE_AUTO_INTERVAL
    /\ CO_storageLinux_auto_process(FALSE, ioError, se.mem)
    /\ LET mask == st_ret'.mask
           emit == EmEmit(mask, storageErrorPrev, nodeIdUnconfigured)
       IN  /\ emAutoSave' = EmAfter(emAutoSave, emit)
           /\ storageErrorPrev' = mask
           /\ em_last' = [emit |-> emit, before |-> storageErrorPrev, mask |-> mask,
                          told |-> emAutoSave, unconfigured |-> nodeIdUnconfigured]
    /\ UNCHANGED nodeIdUnconfigured
    /\ storageIntervalTimer' = 0
    /\ ml_pc' = "wait"
    /\ ml_trace' = Append(ml_trace, "auto")
    /\ UNCHANGED <<epVars, canVars, gtwVars, au_hist, singleThread, snd, sockFull, endVars, odLock, rt_pc,
                   tx_hist, s5, rt_steps, rt_last, resetting>>

\* ---- the end of the program in the build with rt_thread: the flag, the
\* ---- tests at the top of the loops, pthread_join, the last save and the
\* ---- teardown. ep is epRT; the body of main's loop on epMain is one step.

\* main moves on in its own code, the driver is left alone
MainGoes(pc) ==
    /\ main_pc' = pc
    /\ can_last' = NoLast
    /\ UNCHANGED <<multi, now, cm, eh, rxArray, rxFilter, kfilter, kdrop, txArray,
                   ackRun, loEntry>>

\* the thread variables the end of the program does not touch
thrRest ==
    <<au_hist, singleThread, snd, sockFull, ml_pc, storageIntervalTimer, emVars, odLock, ml_trace,
      tx_hist, s5, rt_steps, rt_last, resetting>>

\* one more return of CO_epoll_wait, counted when the flag was set before it
WaitsAfter(n) ==
    IF CO_endProgram THEN (IF n < 2 THEN n + 1 ELSE 2) ELSE n

\* while (... && CO_endProgram == 0)
LoopRuns(flag) ==
    ~flag

sigHandler ==
    /\ ~CO_endProgram
    /\ main_pc \notin {"exited", "failed", "crashed"}
    /\ CO_endProgram' = TRUE
    /\ UNCHANGED <<epVars, stVars, canVars, gtwVars, thrRest, rt_pc, loop_in, end_hist>>

\* the test of main's inner loop lets main in
MainLoopTop ==
    /\ main_pc = "run"
    /\ ml_pc = "wait"
    /\ ~loop_in.main
    /\ LoopRuns(CO_endProgram)
    /\ loop_in' = [loop_in EXCEPT !.main = TRUE]
    /\ UNCHANGED <<epVars, stVars, canVars, gtwVars, thrRest, rt_pc, CO_endProgram, end_hist>>

\* CO_epoll_wait(&epMain) returns and the body of the loop runs
MainIterate ==
    /\ main_pc = "run"
    /\ loop_in.main
    /\ loop_in' = [loop_in EXCEPT !.main = FALSE]
    /\ end_hist' = [end_hist EXCEPT !.main = WaitsAfter(@)]
    /\ UNCHANGED <<epVars, stVars, canVars, gtwVars, thrRest, rt_pc, CO_endProgram>>

\* both loops of main are left, with the flag set or with an application
\* reset asked for by the last iteration; CO_endProgram = 1
MainLeave(resetApp) ==
    /\ main_pc = "run"
    /\ ml_pc = "wait"
    /\ ~loop_in.main
    /\ ~LoopRuns(CO_endProgram) \/ resetApp
    /\ CO_endProgram' = TRUE
    /\ MainGoes("join")
    /\ UNCHANGED <<epVars, stVars, gtwVars, thrRest, rt_pc, loop_in, end_hist>>

\* the flag is set before the reset loop is entered for the first time
MainSkipLoops ==
    /\ main_pc = "reset"
    /\ rt_pc = "off"
    /\ st_pc = "run"
    /\ ~LoopRuns(CO_endProgram)
    /\ MainGoes("join")
    /\ UNCHANGED <<epVars, stVars, gtwVars, thrVars>>

\* a fatal error of the reset cycle: CO_CANinit, or CO_LSSinit, CO_CANopenInit,
\* pthread_create, pthread_setschedparam, CO_CANopenInitPDO; CO_endProgram = 1
\* and continue
MainFatal ==
    /\ main_pc \in {"disabled", "config"}
    /\ CO_endProgram' = TRUE
    /\ MainGoes("join")
    /\ UNCHANGED <<epVars, stVars, gtwVars, thrRest, rt_pc, loop_in, end_hist>>

\* pthread_join(rt_thread_id): returns once rt_thread has returned; of a
\* thread that was never created, rt_thread_id is not initialised and the
\* call fails (exit(EXIT_FAILURE)) or crashes
pthread_join(outcome) ==
    /\ main_pc = "join"
    /\ IF rt_pc = "off"
       THEN outcome \in {"error", "crash"}
       ELSE rt_pc = "returned" /\ outcome = "returned"
    /\ MainGoes(CASE outcome = "returned" -> "final"
                  [] outcome = "error" -> "failed"
                  [] outcome = "crash" -> "crashed")
    /\ UNCHANGED <<epVars, stVars, gtwVars, thrVars>>

\* CO_storageLinux_auto_process(&storage, true)
MainFinalSave(ioError) ==
    /\ main_pc = "final"
    /\ st_pc = "run"
    /\ CO_storageLinux_auto_process(TRUE, ioError, se.mem)
    /\ MainGoes("teardown")
    /\ UNCHANGED <<epVars, gtwVars, thrVars>>

\* CO_epoll_close, CO_epoll_closeGtw, CO_CANsetConfigurationMode, CO_delete, exit
MainTeardown ==
    /\ main_pc = "teardown"
    /\ MainGoes("exited")
    /\ UNCHANGED <<epVars, stVars, gtwVars, thrVars>>

\* the test at the top of rt_thread's loop: in, or return NULL
RtLoopTop ==
    /\ ~singleThread
    /\ rt_pc = "wait"
    /\ ~loop_in.rt
    /\ IF LoopRuns(CO_endProgram)
       THEN loop_in' = [loop_in EXCEPT !.rt = TRUE] /\ UNCHANGED rt_pc
       ELSE rt_pc' = "returned" /\ UNCHANGED loop_in
    /\ UNCHANGED <<epVars, stVars, canVars, gtwVars, thrRest, CO_endProgram, end_hist>>

\* CO_epoll_wait(&epRT) of a thread that is in its loop
RtWaitEnd(src) ==
    /\ loop_in.rt
    /\ RtWaitOn(src)
    /\ loop_in' = [loop_in EXCEPT !.rt = FALSE]
    /\ end_hist' = [end_hist EXCEPT !.rt = WaitsAfter(@)]
    /\ UNCHANGED CO_endProgram

\* ---- a call of CO_CANsend with what it found and what it returned recorded
notTxVars ==
    <<epVars, stVars, gtwVars, singleThread, snd, sockFull, ml_pc, storageIntervalTimer, emVars, endVars, odLock, rt_pc,
      ml_trace, s5, rt_steps, rt_last, resetting, au_hist>>

SendCall(index, outcome) ==
    /\ CO_CANsend(index, outcome)
    /\ tx_hist' = [TxBefore("send", index, outcome) EXCEPT
                      !.err = SendSingleErr(cm, eh, txArray[index], outcome)]
    /\ UNCHANGED notTxVars

\* ---- CO_CANsend and the re-send of CO_CANmodule_process of the single
\* ---- interface build as the two threads of the multi-threaded build run
\* ---- them: one memory access per step. CO_LOCK_CAN_SEND is an empty macro
\* ---- and CO_CANsend does not use it; rt_thread sends inside CO_LOCK_OD,
\* ---- the mainline sends without that lock, so no lock orders the steps.

notSndVars ==
    <<epVars, stVars, gtwVars, au_hist, singleThread, sockFull, ml_pc, storageIntervalTimer, emVars,
      endVars, odLock, rt_pc, ml_trace, tx_hist, s5, rt_steps, rt_last, resetting, multi,
      now, rxArray, rxFilter, kfilter, kdrop, main_pc, can_last, ackRun, loEntry>>

\* the buffers a thread sends on: rt_thread the first one (TPDO, SYNC), the
\* mainline the others; CO_CANmodule_process re-sends any of them
SendBuffers(t) ==
    IF t = "rt" THEN {1} ELSE 2..TxSize

\* the counter after the increment or decrement of a value loaded before
CountStored(reg, busy) ==
    IF busy THEN (reg + 1) % 65536 ELSE (reg + 65535) % 65536

\* the driver is in normal operation
SndOpen ==
    /\ ~multi /\ ~singleThread
    /\ main_pc = "run"
    /\ cm.CANinterfaceCount > 0 /\ eh.fd

\* the overflow test and send(): thread t, standing at from, on buffer i
SndCallAt(t, from, i, o) ==
    /\ SndOpen
    /\ snd[t].pc = from
    /\ eh' = IF txArray[i].bufferFull \/ (o # "ok" /\ ~SendBusy(o))
             THEN [eh EXCEPT !.CANerrorStatus = BitOr(eh.CANerrorStatus, CO_CAN_ERRTX_OVERFLOW)]
             ELSE eh
    /\ snd' = [snd EXCEPT ![t] = [pc |-> "sent", idx |-> i, o |-> o, reg |-> 0]]
    /\ UNCHANGED <<cm, txArray, notSndVars>>

\* a send request of thread t, while the counter is within the bound
SndCall(t, i, o) ==
    /\ cm.CANtxCount <= MaxTxCount
    /\ SndCallAt(t, "idle", i, o)

\* if (buffer->bufferFull) after a full write, if (!buffer->bufferFull)
\* after a refused one
SndTest(t) ==
    LET c == snd[t]
        full == txArray[c.idx].bufferFull
    IN  /\ c.pc = "sent"
        /\ snd' = [snd EXCEPT ![t] = IF (c.o = "ok" /\ full) \/ (SendBusy(c.o) /\ ~full)
                                      THEN [c EXCEPT !.pc = "flag"]
                                      ELSE NoSnd]
        /\ UNCHANGED <<cm, eh, txArray, notSndVars>>

\* buffer->bufferFull = false after a full write, true after a refused one
SndFlag(t) ==
    LET c == snd[t]
    IN  /\ c.pc = "flag"
        /\ txArray' = [txArray EXCEPT ![c.idx].bufferFull = SendBusy(c.o)]
        /\ snd' = [snd EXCEPT ![t].pc = "load"]
        /\ UNCHANGED <<cm, eh, notSndVars>>

\* CANtxCount is read
SndLoad(t) ==
    LET c == snd[t]
    IN  /\ c.pc \in {"load", "pload"}
        /\ snd' = [snd EXCEPT ![t] = [c EXCEPT !.reg = cm.CANtxCount,
                                                 !.pc = IF c.pc = "load" THEN "store"
                                                        ELSE "pstore"]]
        /\ UNCHANGED <<cm, eh, txArray, notSndVars>>

\* CANtxCount++ or CANtxCount-- is written back
SndStore(t) ==
    LET c == snd[t]
    IN  /\ c.pc \in {"store", "pstore"}
        /\ cm' = [cm EXCEPT !.CANtxCount =
                      CountStored(c.reg, c.pc = "store" /\ SendBusy(c.o))]
        /\ snd' = [snd EXCEPT ![t] = IF c.pc = "store" THEN NoSnd
                                      ELSE [c EXCEPT !.pc = "psend"]]
        /\ UNCHANGED <<eh, txArray, notSndVars>>

\* CO_CANmodule_process of the mainline up to the flag of the buffer it
\* found: the status copy, the test of CANtxCount and the scan
ProcScan ==
    LET m1 == [cm EXCEPT !.CANerrorStatus = eh.CANerrorStatus]
        i == FirstFull(txArray)
    IN  /\ SndOpen
        /\ snd["main"].pc = "idle"
        /\ cm.CANtxCount > 0
        /\ IF i = 0
           THEN /\ cm' = [m1 EXCEPT !.CANtxCount = CountWhenNoneFull(m1.CANtxCount)]
                /\ UNCHANGED <<txArray, snd>>
           ELSE /\ cm' = m1
                /\ txArray' = [txArray EXCEPT ![i].bufferFull = FALSE]
                /\ snd' = [snd EXCEPT !["main"] = [pc |-> "pload", idx |-> i,
                                                    o |-> "none", reg |-> 0]]
        /\ UNCHANGED <<eh, notSndVars>>

\* the CO_CANsend call of CO_CANmodule_process
ProcSend(o) ==
    SndCallAt("main", "psend", snd["main"].idx, o)

\* ---- the storage operations of a run with the auto-save ticks recorded

notAuVars ==
    <<epVars, canVars, gtwVars, singleThread, snd, sockFull, ml_pc, storageIntervalTimer, emVars, endVars, odLock, rt_pc,
      ml_trace, tx_hist, s5, rt_steps, rt_last, resetting>>

\* a tick of the mainline; mem1: the memory as the data fwrite finds it
AutoTick(ioError, mem1) ==
    LET r == AutoPass(FALSE, ioError, mem1, FALSE)
    IN  /\ CO_storageLinux_auto_process(FALSE, ioError, mem1)
        /\ au_hist' = [prev |-> au_hist.tick,
                       tick |-> IF mem1 # se.mem THEN "none"
                                ELSE IF r.wrote THEN "wrote"
                                ELSE IF r.error THEN "error"
                                ELSE "clean"]
        /\ UNCHANGED notAuVars

\* anything else between two ticks
AutoOther(op, img) ==
    /\ CASE op = "init" -> CO_storageLinux_init(FALSE)
         [] op = "store" -> storeLinux(0)
         [] op = "restore" -> restoreLinux(0)
         [] op = "write" -> MemWrite(img)
    /\ au_hist' = NoTick
    /\ UNCHANGED notAuVars

(***************************************************************************)
(* Specifications                                                          *)
(***************************************************************************)

InitEpoll ==
    EpInit /\ StIdle /\ CanIdle /\ GtwIdle /\ ThrIdle

NextEpoll ==
    \/ CO_epoll_wait /\ UNCHANGED notEpVars
    \/ CO_epoll_processLast /\ UNCHANGED notEpVars
    \/ wakeupCallback /\ UNCHANGED notEpVars
    \/ ConsumeEvent /\ UNCHANGED notEpVars
    \/ LowerTimerNext /\ UNCHANGED notEpVars
    \/ OtherArrives /\ UNCHANGED notEpVars
    \/ TimerExpires /\ UNCHANGED notEpVars

\* the loop goes on to CO_epoll_processLast after every return of
\* CO_epoll_wait, and epoll_wait reports every descriptor that stays ready
FairEpoll ==
    /\ WF_vars(CO_epoll_processLast /\ UNCHANGED notEpVars)
    /\ SF_vars(WaitReturn("event") /\ UNCHANGED notEpVars)

SpecEpollFair ==
    InitEpoll /\ [][NextEpoll]_vars /\ FairEpoll

SpecEpoll ==
    InitEpoll /\ [][NextEpoll]_vars

InitStorage ==
    StInit /\ EpIdle /\ CanIdle /\ GtwIdle /\ ThrIdle

NextStorage ==
    \/ \E crash \in BOOLEAN : CO_storageLinux_init(crash) /\ UNCHANGED notStVars
    \/ \E crashAt \in 0..4 : storeLinux(crashAt) /\ UNCHANGED notStVars
    \/ \E crashAt \in 0..2 : restoreLinux(crashAt) /\ UNCHANGED notStVars
    \/ \E crash \in BOOLEAN, ioError \in BOOLEAN, mem1 \in Images :
          CO_storageLinux_auto_process(crash, ioError, mem1) /\ UNCHANGED notStVars
    \/ \E img \in Images : MemWrite(img) /\ UNCHANGED notStVars
    \/ \E ioError \in BOOLEAN : Shutdown(ioError) /\ UNCHANGED notStVars
    \/ CrashIdle /\ UNCHANGED notStVars

SpecStorage ==
    InitStorage /\ [][NextStorage]_vars

\* ---- input sets of the CAN specifications

\* COB-ID 0x180 and the receive slot the monitor specifications configure
MonitorData ==
    DataFrame(384, FALSE)

ErrFramesNoAck ==
    {ErrFrame(CAN_ERR_BUSOFF, 0),
     ErrFrame(CAN_ERR_CRTL, CAN_ERR_CRTL_TX_WARNING),
     ErrFrame(CAN_ERR_BUSERROR, 0)}

ErrFrames ==
    ErrFramesNoAck \cup {ErrFrame(CAN_ERR_ACK, 0)}

\* what send() does: "ok", or "EAGAIN" for a full socket queue
SendOutcomes ==
    {"ok", "EAGAIN"}

\* <<ident, mask, rtr>> of the receive specification, and its frames
RxConfigs ==
    {<<384, 2047, FALSE>>, <<384, 2046, FALSE>>, <<385, 2047, FALSE>>,
     <<384, 0, FALSE>>, <<384, 2047, TRUE>>, <<0, 0, FALSE>>}

RxFrames ==
    {DataFrame(id, rtr) : id \in {0, 384, 385}, rtr \in BOOLEAN}

\* the no-ack counter: all error frames and send outcomes, the clock stands
InitNoack ==
    CanInit /\ EpIdle /\ StIdle /\ GtwIdle /\ ThrIdle

NextNoack ==
    \/ CO_CANmodule_disable /\ UNCHANGED notCanVars
    \/ CO_CANmodule_init /\ UNCHANGED notCanVars
    \/ CO_CANmodule_addInterface /\ UNCHANGED notCanVars
    \/ CO_CANrxBufferInit(1, 384, 2047, FALSE, TRUE) /\ UNCHANGED notCanVars
    \/ \E i \in 1..TxSize : CO_CANtxBufferInit(i) /\ UNCHANGED notCanVars
    \/ CO_CANsetNormalMode(TRUE) /\ UNCHANGED notCanVars
    \/ ResetBegin /\ UNCHANGED notCanVars
    \/ \E msg \in ErrFrames \cup {MonitorData} :
          CO_CANrxFromEpoll("EPOLLIN", msg, TRUE, 0) /\ UNCHANGED notCanVars
    \/ \E ev \in {"EPOLLERR", "other"} :
          CO_CANrxFromEpoll(ev, MonitorData, TRUE, 0) /\ UNCHANGED notCanVars
    \/ \E i \in 1..TxSize, o \in SendOutcomes :
          CO_CANsend(i, o) /\ UNCHANGED notCanVars
    \/ \E o \in SendOutcomes : CO_CANmodule_process(o) /\ UNCHANGED notCanVars

SpecNoack ==
    InitNoack /\ [][NextNoack]_vars

\* the listen-only time-out: the clock runs, listen-only is entered by bus-off
InitListen ==
    CanInit /\ EpIdle /\ StIdle /\ GtwIdle /\ ThrIdle

NextListen ==
    \/ CO_CANmodule_disable /\ UNCHANGED notCanVars
    \/ CO_CANmodule_init /\ UNCHANGED notCanVars
    \/ CO_CANmodule_addInterface /\ UNCHANGED notCanVars
    \/ CO_CANrxBufferInit(1, 384, 2047, FALSE, TRUE) /\ UNCHANGED notCanVars
    \/ \E i \in 1..TxSize : CO_CANtxBufferInit(i) /\ UNCHANGED notCanVars
    \/ CO_CANsetNormalMode(TRUE) /\ UNCHANGED notCanVars
    \/ ResetBegin /\ UNCHANGED notCanVars
    \/ \E msg \in ErrFramesNoAck \cup {MonitorData} :
          CO_CANrxFromEpoll("EPOLLIN", msg, TRUE, 0) /\ UNCHANGED notCanVars
    \/ \E ev \in {"EPOLLERR", "other"} :
          CO_CANrxFromEpoll(ev, MonitorData, TRUE, 0) /\ UNCHANGED notCanVars
    \/ \E i \in 1..TxSize : CO_CANsend(i, "ok") /\ UNCHANGED notCanVars
    \/ CO_CANmodule_process("ok") /\ UNCHANGED notCanVars
    \/ Tick /\ UNCHANGED notCanVars

SpecListen ==
    InitListen /\ [][NextListen]_vars

\* reception: the configurations of the receive slots, data frames only
InitRx ==
    CanInit /\ EpIdle /\ StIdle /\ GtwIdle /\ ThrIdle

NextRx ==
    \/ CO_CANmodule_disable /\ UNCHANGED notCanVars
    \/ CO_CANmodule_init /\ UNCHANGED notCanVars
    \/ CO_CANmodule_addInterface /\ UNCHANGED notCanVars
    \/ \E i \in 1..RxSize, c \in RxConfigs :
          CO_CANrxBufferInit(i, c[1], c[2], c[3], TRUE) /\ UNCHANGED notCanVars
    \/ \E ok \in BOOLEAN : CO_CANsetNormalMode(ok) /\ UNCHANGED notCanVars
    \/ ResetBegin /\ UNCHANGED notCanVars
    \/ \E msg \in RxFrames, readOk \in BOOLEAN, d \in 0..1 :
          CO_CANrxFromEpoll("EPOLLIN", msg, readOk, d) /\ UNCHANGED notCanVars
    \/ \E ev \in {"EPOLLERR", "other"} :
          CO_CANrxFromEpoll(ev, MonitorData, TRUE, 0) /\ UNCHANGED notCanVars

SpecRx ==
    InitRx /\ [][NextRx]_vars

\* ---- the command gateway: stdin or one listener and its connections

GtwChunks ==
    UNION {[1..n -> GtwBytes] : n \in 1..MaxChunk}

InitGtw ==
    GtwInit /\ EpIdle /\ StIdle /\ CanIdle /\ ThrIdle

NextGtw ==
    \/ \E dt \in 0..MaxTimeDiff :
          CO_epoll_processGtw("none", "data", <<>>, "a", "a", TRUE, TRUE, TRUE, dt)
              /\ UNCHANGED <<stVars, canVars, thrVars>>
    \/ \E acceptOk \in BOOLEAN, addOk \in BOOLEAN, dt \in 0..MaxTimeDiff :
          CO_epoll_processGtw("listener", "data", <<>>, "a", "a", TRUE, acceptOk, addOk, dt)
              /\ UNCHANGED <<stVars, canVars, thrVars>>
    \/ \E rd \in {"data", "eof", "EAGAIN", "error", "nospace"}, dt \in 0..MaxTimeDiff :
          CO_epoll_processGtw("in", rd, <<"a">>, "a", "a", TRUE, TRUE, TRUE, dt)
              /\ UNCHANGED <<stVars, canVars, thrVars>>
    \/ \E dt \in 0..MaxTimeDiff :
          CO_epoll_processGtw("hup", "data", <<>>, "a", "a", TRUE, TRUE, TRUE, dt)
              /\ UNCHANGED <<stVars, canVars, thrVars>>
    \/ ClientConnects /\ UNCHANGED notGtwVars

SpecGtw ==
    InitGtw /\ [][NextGtw]_vars

\* ---- the command gateway on stdin: what is read and what the parser gets

InitStdio ==
    StdioInit /\ EpIdle /\ StIdle /\ CanIdle /\ ThrIdle

NextStdio ==
    \/ CO_epoll_processGtw("none", "data", <<>>, "a", "a", TRUE, TRUE, TRUE, 0)
          /\ UNCHANGED <<stVars, canVars, thrVars>>
    \/ \E buf \in GtwChunks, room \in BOOLEAN :
          CO_epoll_processGtw("in", "data", buf, buf[1], buf[Len(buf)], room, TRUE, TRUE, 0)
              /\ UNCHANGED <<stVars, canVars, thrVars>>
    \/ \E first \in GtwBytes, last \in GtwBytes, room \in BOOLEAN :
          CO_epoll_processGtw("in", "eof", <<>>, first, last, room, TRUE, TRUE, 0)
              /\ UNCHANGED <<stVars, canVars, thrVars>>
    \/ \E rd \in {"EAGAIN", "error", "nospace"} :
          CO_epoll_processGtw("in", rd, <<>>, "a", "a", FALSE, TRUE, TRUE, 0)
              /\ UNCHANGED <<stVars, canVars, thrVars>>

SpecStdio ==
    InitStdio /\ [][NextStdio]_vars

\* ---- CO_CANsend of the single interface build with every outcome of send()
AllSendOutcomes ==
    {"ok", "EINTR", "EAGAIN", "ENOBUFS", "EIO"}

InitSend ==
    CanInitWith(FALSE) /\ EpIdle /\ StIdle /\ GtwIdle /\ ThrIdle

NextSend ==
    \/ CO_CANmodule_disable /\ UNCHANGED notCanVars
    \/ CO_CANmodule_init /\ UNCHANGED notCanVars
    \/ \E i \in 1..TxSize : CO_CANtxBufferInit(i) /\ UNCHANGED notCanVars
    \/ CO_CANsetNormalMode(TRUE) /\ UNCHANGED notCanVars
    \/ ResetBegin /\ UNCHANGED notCanVars
    \/ \E msg \in ErrFramesNoAck :
          CO_CANrxFromEpoll("EPOLLIN", msg, TRUE, 0) /\ UNCHANGED notCanVars
    \/ \E i \in 1..TxSize, o \in AllSendOutcomes : SendCall(i, o)
    \/ \E o \in {"ok", "EAGAIN", "EIO"} : CO_CANmodule_process(o) /\ UNCHANGED notCanVars

SpecSend ==
    InitSend /\ [][NextSend]_vars

\* ---- main's inner loop in the single interface build, with the command
\* ---- interface disabled and an auto-saved storage entry
MainOutcomes ==
    {"ok", "ENOBUFS", "EIO"}

InitMain ==
    /\ EpIdle /\ StWith(TRUE, Absent) /\ CanIdle /\ GtwIdle
    /\ \E single \in BOOLEAN : ThrWith(single)

NextMain ==
    \/ main_pc = "reset" /\ CO_storageLinux_init(FALSE) /\ UNCHANGED notStVars
    \/ st_pc = "run" /\ CO_CANmodule_disable /\ UNCHANGED notCanVars
    \/ CO_CANmodule_init /\ UNCHANGED notCanVars
    \/ pthread_create_rt
    \/ MainSetNormalMode(TRUE)
    \/ MainWait
    \/ RtRx("other")
    \/ RtLock
    \/ RtCheck
    \/ CO_process_SYNC
    \/ CO_process_RPDO
    \/ \E due \in BOOLEAN, i \in 1..TxSize, o \in MainOutcomes : CO_process_TPDO(due, i, o)
    \/ RtUnlock
    \/ MainGtw
    \/ \E o \in MainOutcomes : MainProcessCAN(o)
    \/ \E i \in 1..TxSize, o \in MainOutcomes : MainStackSend(i, o)
    \/ \E i \in 1..TxSize : MainStackInit(i)
    \/ \E lower \in BOOLEAN : MainStackIdle(lower)
    \/ MainTail
    \/ MainLast
    \/ \E dt \in StorageTimeDiffs : MainAutoWait(dt)
    \/ MainAutoTick(FALSE)
    \/ ml_pc = "wait" /\ TimerExpires /\ UNCHANGED notEpVars

SpecMain ==
    InitMain /\ [][NextMain]_vars

\* ---- error frames of the controller with every data[1], alone, with the
\* ---- bus-off class and beside bus-off frames
CrtlBytes ==
    0..63

CrtlFrames ==
    {ErrFrame(CAN_ERR_CRTL, d) : d \in CrtlBytes}
        \cup {ErrFrame(CAN_ERR_CRTL + CAN_ERR_BUSOFF, CAN_ERR_CRTL_RX_PASSIVE),
              ErrFrame(CAN_ERR_BUSOFF, 0)}

InitCrtl ==
    CanInitWith(FALSE) /\ EpIdle /\ StIdle /\ GtwIdle /\ ThrIdle

NextCrtl ==
    \/ CO_CANmodule_disable /\ UNCHANGED notCanVars
    \/ CO_CANmodule_init /\ UNCHANGED notCanVars
    \/ CO_CANsetNormalMode(TRUE) /\ UNCHANGED notCanVars
    \/ ResetBegin /\ UNCHANGED notCanVars
    \/ \E msg \in CrtlFrames :
          CO_CANrxFromEpoll("EPOLLIN", msg, TRUE, 0) /\ UNCHANGED notCanVars
    \/ CO_CANrxFromEpoll("EPOLLIN", ErrFrame(CAN_ERR_CRTL, 0), FALSE, 0)
          /\ UNCHANGED notCanVars

SpecCrtl ==
    InitCrtl /\ [][NextCrtl]_vars

\* ---- the program from its first reset cycle to exit, with signals and
\* ---- fatal errors, in the build with rt_thread
InitEnd ==
    EpInit /\ StWith(TRUE, Absent) /\ CanIdle /\ GtwIdle /\ ThrIdle

MainEndStep ==
    \/ main_pc = "reset" /\ st_pc = "boot" /\ CO_storageLinux_init(FALSE)
          /\ UNCHANGED notStVars
    \/ (rt_pc = "off" => LoopRuns(CO_endProgram)) /\ st_pc = "run"
          /\ CO_CANmodule_disable /\ UNCHANGED notCanVars
    \/ CO_CANmodule_init /\ UNCHANGED notCanVars
    \/ pthread_create_rt
    \/ MainSetNormalMode(TRUE)
    \/ MainLoopTop
    \/ MainIterate
    \/ MainLeave(FALSE)
    \/ MainSkipLoops
    \/ MainClearNormal
    \/ MainUnlockOD
    \/ \E outcome \in {"returned", "error", "crash"} : pthread_join(outcome)
    \/ \E ioError \in BOOLEAN : MainFinalSave(ioError)
    \/ MainTeardown

RtEndStep ==
    \/ RtLoopTop
    \/ RtWaitEnd("timer")
    \/ RtRx("other")
    \/ RtLock
    \/ RtCheck
    \/ CO_process_SYNC
    \/ CO_process_RPDO
    \/ CO_process_TPDO(FALSE, 1, "ok")
    \/ RtUnlock
    \/ RtLast

TimerStep ==
    TimerExpires /\ UNCHANGED notEpVars

NextEnd ==
    \/ MainEndStep
    \/ RtEndStep
    \/ TimerStep
    \/ RtWaitEnd("eintr")
    \/ sigHandler
    \/ MainLockOD
    \/ MainLeave(TRUE)
    \/ MainFatal

\* each thread runs on, and the timer of epRT expires when it is armed
FairEnd ==
    WF_vars(MainEndStep) /\ WF_vars(RtEndStep) /\ WF_vars(TimerStep)

SpecEnd ==
    InitEnd /\ [][NextEnd]_vars /\ FairEnd

\* ---- rt_thread's receive call in two steps beside main's communication
\* ---- resets; ep is epRT
InitRace ==
    EpInit /\ StIdle /\ CanIdle /\ GtwIdle /\ ThrIdle

NextRace ==
    \/ MainDisable
    \/ CO_CANmodule_init /\ UNCHANGED notCanVars
    \/ CO_CANrxBufferInit(1, 384, 2047, FALSE, TRUE) /\ UNCHANGED notCanVars
    \/ pthread_create_rt
    \/ MainSetNormalMode(TRUE)
    \/ MainLockOD
    \/ MainClearNormal
    \/ MainUnlockOD
    \/ RtWait
    \/ RtRx("other")
    \/ RtRxEnter
    \/ \E msg \in {MonitorData, ErrFrame(CAN_ERR_BUSERROR, 0)} : RtRxFinish("EPOLLIN", msg)
    \/ \E outcome \in {"nothing", "crash"} : RtRxFreed(outcome)
    \/ RtLock
    \/ RtCheck
    \/ CO_process_SYNC
    \/ CO_process_RPDO
    \/ CO_process_TPDO(FALSE, 1, "ok")
    \/ RtUnlock
    \/ RtLast
    \/ TimerExpires /\ UNCHANGED notEpVars
    \/ OtherArrives /\ UNCHANGED notEpVars

SpecRace ==
    InitRace /\ [][NextRace]_vars

\* ---- the storage block of main's loop with auto-saves that fail and recover,
\* ---- on a node whose id is configured or left to LSS at a communication reset
InitEm ==
    /\ EpIdle /\ StWith(TRUE, Absent) /\ CanIdle /\ GtwIdle
    /\ \E unconfigured \in BOOLEAN : ThrWithNode(TRUE, unconfigured)

NextEm ==
    \/ main_pc = "reset" /\ CO_storageLinux_init(FALSE) /\ UNCHANGED notStVars
    \/ st_pc = "run" /\ CO_CANmodule_disable /\ UNCHANGED notCanVars
    \/ CO_CANmodule_init /\ UNCHANGED notCanVars
    \/ \E unconfigured \in BOOLEAN : CO_CANopenInit(unconfigured)
    \/ MainSetNormalMode(TRUE)
    \/ MainLockOD
    \/ MainClearNormal
    \/ MainUnlockOD
    \/ MainWait
    \/ RtRx("other")
    \/ RtLock
    \/ RtCheck
    \/ CO_process_SYNC
    \/ CO_process_RPDO
    \/ CO_process_TPDO(FALSE, 1, "ok")
    \/ RtUnlock
    \/ MainGtw
    \/ MainProcessCAN("ok")
    \/ MainStackIdle(FALSE)
    \/ MainTail
    \/ MainLast
    \/ MainAutoWait(CO_STORAGE_AUTO_INTERVAL)
    \/ \E ioError \in BOOLEAN : MainAutoTick(ioError)
    \/ \E img \in Images : MemWrite(img) /\ UNCHANGED notStVars
    \/ ml_pc = "wait" /\ TimerExpires /\ UNCHANGED notEpVars

SpecEm ==
    InitEm /\ [][NextEm]_vars

\* ---- CO_storageLinux_init on whatever file it may find, for entries of
\* ---- any sub-index
SubIndexes ==
    {2, 4, 31, 32, 255}

\* a byte after a complete image
Longer(bytes) ==
    bytes \o <<0>>

FoundFiles ==
    InitialFiles
        \cup {[ex |-> TRUE, bytes |-> b] : b \in {<<>>, <<0>>, <<1>>, <<45>>, <<45, 0>>, <<0, 10>>}}
        \cup {[ex |-> TRUE, bytes |-> Longer(FileImage(img))] : img \in Images}
        \cup {[ex |-> TRUE, bytes |-> img \o Bytes16((crc16_ccitt(img, EntryLen, 0) + 1) % 65536)] :
                  img \in Images}
        \cup {[ex |-> TRUE, bytes |-> Longer(DefaultsMarker)]}

InitFound ==
    /\ \E auto \in BOOLEAN, c \in FoundFiles, sub \in SubIndexes :
          /\ fsFiles = [s \in FileSlots |-> IF s = "path" THEN c ELSE Absent]
          /\ se = FreshEntry(auto, sub)
          /\ st_hist = [NoHist EXCEPT !.end = "first", !.prev = c]
    /\ st_pc = "boot"
    /\ st_ret = Ret("none", "NO", FALSE)
    /\ st_run = NewRun
    /\ EpIdle /\ CanIdle /\ GtwIdle /\ ThrIdle

NextFound ==
    CO_storageLinux_init(FALSE) /\ UNCHANGED notStVars

SpecFound ==
    InitFound /\ [][NextFound]_vars

\* ---- the auto-save ticks of a run among the other storage operations
InitAuto ==
    StInit /\ EpIdle /\ CanIdle /\ GtwIdle /\ ThrIdle

NextAuto ==
    \/ AutoOther("init", DefaultImage)
    \/ AutoOther("store", DefaultImage)
    \/ AutoOther("restore", DefaultImage)
    \/ \E img \in Images : AutoOther("write", img)
    \/ \E ioError \in BOOLEAN, mem1 \in Images : AutoTick(ioError, mem1)

SpecAuto ==
    InitAuto /\ [][NextAuto]_vars

\* ---- rt_thread beside main's communication resets; ep is epRT
InitRT ==
    EpInit /\ StIdle /\ CanIdle /\ GtwIdle /\ ThrIdle

NextRT ==
    \/ CO_CANmodule_disable /\ UNCHANGED notCanVars
    \/ CO_CANmodule_init /\ UNCHANGED notCanVars
    \/ pthread_create_rt
    \/ \E sockoptOk \in BOOLEAN : MainSetNormalMode(sockoptOk)
    \/ MainLockOD
    \/ MainClearNormal
    \/ MainUnlockOD
    \/ RtWait
    \/ \E events \in {"EPOLLERR", "other"} : RtRx(events)
    \/ RtLock
    \/ RtCheck
    \/ CO_process_SYNC
    \/ CO_process_RPDO
    \/ \E due \in BOOLEAN, i \in 1..TxSize, o \in MainOutcomes : CO_process_TPDO(due, i, o)
    \/ RtUnlock
    \/ RtLast
    \/ TimerExpires /\ UNCHANGED notEpVars
    \/ OtherArrives /\ UNCHANGED notEpVars

SpecRT ==
    InitRT /\ [][NextRT]_vars

\* ---- the same with a configured receive slot and frames arriving
InitNormal ==
    EpIdle /\ StIdle /\ CanIdle /\ GtwIdle /\ ThrIdle

NextNormal ==
    \/ CO_CANmodule_disable /\ UNCHANGED notCanVars
    \/ CO_CANmodule_init /\ UNCHANGED notCanVars
    \/ \E use \in BOOLEAN :
          /\ main_pc = "config"
          /\ CO_CANrxBufferInit(1, IF use THEN 384 ELSE 0, IF use THEN 2047 ELSE 0,
                                FALSE, TRUE)
          /\ UNCHANGED notCanVars
    \/ pthread_create_rt
    \/ \E sockoptOk \in BOOLEAN : MainSetNormalMode(sockoptOk)
    \/ MainLockOD
    \/ MainClearNormal
    \/ MainUnlockOD
    \/ RtWait
    \/ \E msg \in {MonitorData, ErrFrame(CAN_ERR_BUSERROR, 0)} : RtRxMsg("EPOLLIN", msg)
    \/ RtRx("other")
    \/ RtLock
    \/ RtCheck
    \/ CO_process_SYNC
    \/ CO_process_RPDO
    \/ CO_process_TPDO(FALSE, 1, "ok")
    \/ RtUnlock
    \/ RtLast
    \/ TimerExpires /\ UNCHANGED notEpVars
    \/ OtherArrives /\ UNCHANGED notEpVars

SpecNormal ==
    InitNormal /\ [][NextNormal]_vars

(***************************************************************************)
(* Properties                                                              *)
(***************************************************************************)

\* C1: however many times wakeupCallback wrote the eventfd since the last
\* drain, at most one return of CO_epoll_wait is caused by the eventfd, and
\* after that return epoll_new and timerEvent are both false.
C1_WakeupCoalesced ==
    /\ wakeRet <= 1
    /\ (ep_pc = "proc" /\ ep_src = "event") => (~ep.epoll_new /\ ~ep.timerEvent)

\* two or more notifications were drained by one wake-up caused return
C1_Witness ==
    ep_pc = "proc" /\ ep_src = "event" /\ ep_val >= 2 /\ wakeRet = 1

\* C10: CO_epoll_processLast calls timerfd_settime exactly when
\* timerNext_us < timerInterval_us, and then the next expiration is
\* timerNext_us + 1 microseconds away; otherwise the timer is left as armed.
C10_RearmIffLowered ==
    [][(ep_pc = "proc" /\ ep_pc' = "wait") =>
          IF ep.timerNext_us < ep.timerInterval_us
          THEN /\ ep_settime'
               /\ kt'.value = (ep.timerNext_us + 1) * 1000
               /\ kt'.interval = kt.interval
          ELSE /\ ~ep_settime'
               /\ kt' = kt]_vars

\* the timer was re-armed to CANSEND_DELAY_US + 1 microseconds
C10_Witness ==
    ep_pc = "wait" /\ ep_settime /\ kt.value = (CANSEND_DELAY_US + 1) * 1000

\* C11: the period of the timer is the interval CO_epoll_create was given,
\* in every state; a lowered timerNext_us changes only the next expiration,
\* and after a tick whose iteration gave no override the next expiration is
\* one interval after that tick.
C11_IntervalKept ==
    /\ kt.interval = ep.timerInterval_us * 1000
    /\ ep.tm.interval_sec = ep.timerInterval_us \div 1000000
    /\ ep.tm.interval_nsec = (ep.timerInterval_us % 1000000) * 1000
    /\ (ep_src = "timer" /\ ep_pc = "wait" /\ ~ep_settime) => kt.value = kt.interval

\* an earlier iteration shortened the expiration, the timer ticked, and the
\* iteration of that tick gave no override: the timer is back on its period
C11_Witness ==
    /\ ep_src = "timer" /\ ep_pc = "wait" /\ ~ep_settime
    /\ ep.tm.value_nsec = (CANSEND_DELAY_US + 1) * 1000
    /\ kt.value = MAIN_THREAD_INTERVAL_US * 1000
    /\ kt.interval = MAIN_THREAD_INTERVAL_US * 1000

\* a file that holds a complete image followed by its matching CRC
ValidFile(c) ==
    c.ex /\ \E img \in Images : c.bytes = FileImage(img)

\* C2: when storeLinux is cut short by a crash after <path>.tmp was written
\* and before the final rename took effect, then at restart <path> still
\* holds the previous generation, CO_storageLinux_init restores the entry
\* from it and reports no data-corrupt error.
C2_CrashedSaveKeepsPrevious ==
    (st_hist.end = "crash" /\ st_hist.op = "store" /\ st_hist.at \in {3, 4}
        /\ ValidFile(st_hist.prev))
    => IF st_pc = "boot"
       THEN fsFiles["path"] = st_hist.prev
       ELSE /\ st_ret.restored
            /\ st_ret.code = "NO"
            /\ se.mem = SubSeq(st_hist.prev.bytes, 1, EntryLen)

\* C3: at every crash point of an explicit save, of an auto-save pass or of
\* the file open done by CO_storageLinux_init, the file <path> found at
\* restart is either the previous generation (the file as it was before the
\* operation began) or a complete image with its matching CRC.
C3_RestartFileIsWhole ==
    (st_pc = "boot" /\ st_hist.end = "crash" /\ st_hist.prev.ex
        /\ st_hist.op \in {"store", "auto", "init"})
    => (fsFiles["path"] = st_hist.prev \/ ValidFile(fsFiles["path"]))

RxDataStep ==
    can_last'.op = "rx" /\ can_last'.kind = "data" /\ can_last'.ok

\* C5 as stated: whenever a data frame is received while the monitor is in
\* listen-only, the monitor has left listen-only and its no-ack counter is 0
\* when CO_CANrxFromEpoll returns, whatever the state of the module.
C5_DataFrameAlwaysLeaves ==
    [][(RxDataStep /\ eh.listenOnly)
          => (~eh'.listenOnly /\ eh'.noackCounter = 0)]_vars

\* C5: whenever a data frame is received while the module is in normal mode
\* (CANnormal) and the monitor is in listen-only, the monitor has left
\* listen-only and its no-ack counter is 0 when CO_CANrxFromEpoll returns.
C5_DataFrameLeavesInNormalMode ==
    [][(RxDataStep /\ cm.CANnormal /\ eh.listenOnly)
          => (~eh'.listenOnly /\ eh'.noackCounter = 0)]_vars

\* a data frame has just taken the monitor out of listen-only
C5_Witness ==
    /\ can_last.op = "rx" /\ can_last.kind = "data" /\ can_last.ok
    /\ can_last.wasLO /\ cm.CANnormal
    /\ ~eh.listenOnly /\ eh.noackCounter = 0

\* more than CO_CANerror_LISTEN_ONLY seconds have passed since the latest
\* entry to listen-only
ListenTimeElapsed ==
    now - loEntry > CO_CANerror_LISTEN_ONLY * TicksPerSec

\* C6 as stated: the monitor leaves listen-only only when a data frame is
\* received or when more than 10 seconds have passed since the latest entry;
\* nothing else, a disable or re-initialisation of the module included,
\* makes it leave earlier.
C6_LeavesOnlyByDataOrTime ==
    [][(eh.listenOnly /\ ~eh'.listenOnly)
          => (RxDataStep \/ ListenTimeElapsed)]_vars

\* C6: the monitor leaves listen-only only when a data frame is received,
\* when more than 10 seconds have passed since the latest entry, or when
\* CO_CANmodule_disable clears the monitor of the interface.
C6_LeavesOnlyByDataTimeOrDisable ==
    [][(eh.listenOnly /\ ~eh'.listenOnly)
          => (RxDataStep \/ ListenTimeElapsed \/ can_last'.op = "disable")]_vars

\* a send request found the time over and took the monitor out of listen-only
C6_Witness ==
    /\ can_last.op = "send" /\ can_last.wasLO /\ ~eh.listenOnly
    /\ now > CO_CANerror_LISTEN_ONLY * TicksPerSec

\* C7: starting from ACTIVE with no-ack counter 0, after 16 consecutive
\* ACK-miss error frames the monitor is in listen-only.
C7_SixteenAckMisses ==
    ackRun = CO_CANerror_NOACK_MAX => eh.listenOnly

\* C8: while the monitor is in listen-only and no more than 10 seconds have
\* passed since the entry, a send request writes no frame to the socket, in
\* the single interface build as in the multi interface build.
C8_ListenOnlyDropsSend ==
    [][(can_last'.op = "send" /\ eh.listenOnly /\ ~ListenTimeElapsed)
          => ~can_last'.wrote]_vars

\* C9 as stated: a data frame received in normal mode runs the callback of
\* every slot set up by CO_CANrxBufferInit that it matches exactly once,
\* whatever the other slots hold.
C9_EveryMatchingSlotInvoked ==
    [][(RxDataStep /\ cm.CANnormal)
          => \A i \in 1..RxSize :
                (rxArray[i].cb /\ RxMatches(can_last'.frame, rxArray[i]))
                => can_last'.invoked[i] = 1]_vars

\* C9: a data frame received in normal mode runs the callback of a slot set
\* up by CO_CANrxBufferInit that it matches exactly once when no slot of a
\* lower index matches the frame, and not at all when one does.
C9_FirstMatchingSlotInvoked ==
    [][(RxDataStep /\ cm.CANnormal)
          => \A i \in 1..RxSize :
                (rxArray[i].cb /\ RxMatches(can_last'.frame, rxArray[i]))
                => can_last'.invoked[i] =
                      IF \E j \in 1..(i - 1) : RxMatches(can_last'.frame, rxArray[j])
                      THEN 0 ELSE 1]_vars

\* the callback of the second slot ran while the first slot, set up as well,
\* did not match the frame
C9_Witness ==
    /\ can_last.op = "rx" /\ can_last.kind = "data" /\ can_last.ok
    /\ rxArray[1].cb /\ rxArray[2].cb
    /\ can_last.invoked[2] = 1 /\ can_last.invoked[1] = 0

\* C14: with a socket gateway and T_idle > 0, CO_epoll_processGtw closes the
\* connection for idleness exactly when the idle timer it has accumulated
\* from the time differences is above T_idle, never at or below it; the
\* descriptor is then unregistered and closed, gtwa_fd is -1 and the
\* listener's one-shot watch is armed again; with T_idle = 0 no connection
\* is closed for idleness.
C14_IdleClose ==
    /\ gw_last.idleClosed =>
          /\ gw.socketTimeout_us > 0
          /\ gw_last.act
          /\ gw_last.tmr > gw.socketTimeout_us
          /\ gw.gtwa_fd = NoFd
          /\ gw_last.fd \notin gk.open
          /\ gw_last.fd \notin gk.watched
          /\ gk.armed
    /\ (gw_last.act /\ gw.socketTimeout_us > 0 /\ gw_last.tmr > gw.socketTimeout_us)
          => gw_last.idleClosed
    /\ gw.socketTimeout_us = 0 => ~gw_last.idleClosed

\* an idle connection that was open and watched has just been closed while
\* a second client waits: the listener is armed for it
C14_Witness ==
    /\ gw_last.idleClosed
    /\ gw_last.op = "none"
    /\ gw_last.fd \in gw_last.held
    /\ gk.open = {}
    /\ gk.armed
    /\ gk.backlog > 0

\* C15: a socket gateway holds at most one client connection: while a
\* connection descriptor is open the listener's one-shot watch is not armed,
\* and a connection is accepted only when no earlier one is still open.
C15_OneConnection ==
    /\ Cardinality(gk.open) <= 1
    /\ gk.open # {} => ~gk.armed
    /\ gw_last.accepted # NoFd => gw_last.held = {}

\* isprint(): the printing characters, the space included
isprint(c) ==
    c \in {"[", "#", "a", " "}

\* C18: of every command line completed on stdin, in one read or in several,
\* the parser gets exactly the bytes read when the line starts with '[', with
\* '#' or with a non-printable byte, and otherwise "[0] " once, before the
\* first byte of the line, followed by the bytes read.
C18_SequenceOncePerLine ==
    \A l \in gw_done :
        l.fed = IF l.raw[1] \in {"[", "#"} \/ ~isprint(l.raw[1])
                THEN l.raw
                ELSE GtwSequence \o l.raw

\* C16: the filters installed on the socket never include the pair can_id = 0,
\* can_mask = 0; in normal mode of a module that has an interface they are
\* exactly the slots of the filter array that are not zero/zero, so that
\* with no such slot nothing is installed and no data frame is let through;
\* a zero/zero slot therefore never admits a frame, and no installed filter
\* admits every frame.
C16_ZeroSlotsElided ==
    /\ FilterZero \notin kfilter
    /\ \A f \in kfilter : \E msg \in RxFrames : ~KernelPasses({f}, msg.can_id)
    /\ (cm.CANnormal /\ cm.CANinterfaceCount > 0) =>
          /\ kfilter = {rxFilter[i] : i \in {j \in 1..Len(rxFilter) : rxFilter[j] # FilterZero}}
          /\ (\A i \in 1..Len(rxFilter) : rxFilter[i] = FilterZero)
                => \A msg \in RxFrames : ~KernelPasses(kfilter, msg.can_id)

\* normal mode with slot 1 configured by CO_CANrxBufferInit(0, 0) and slot 2
\* never configured: only slot 1 is installed, with the flag bits in its mask
C16_Witness ==
    /\ cm.CANnormal
    /\ cm.CANinterfaceCount > 0
    /\ rxFilter[1] = [can_id |-> WordZero, can_mask |-> WOr(CAN_EFF_FLAG, CAN_RTR_FLAG)]
    /\ rxFilter[2] = FilterZero
    /\ kfilter = {rxFilter[1]}
\* ---- C17: for an AUTO_SAVE entry with an open file, of two auto-save ticks
\* that directly follow each other with the memory unchanged, the second one
\* calls no fwrite (as stated: whatever the first tick did)
C17_SecondTickNoWrite ==
    (se.auto /\ st_pc = "run" /\ au_hist.prev # "none" /\ au_hist.tick # "none")
    => au_hist.tick = "clean"

\* C17 with the failure path of the first tick set apart: when the first
\* tick reported no error, the second one calls no fwrite, leaves the stored
\* CRC alone and reports no error
C17_SecondTickNoWriteAfterSuccess ==
    (se.auto /\ st_pc = "run" /\ au_hist.prev \in {"wrote", "clean"} /\ au_hist.tick # "none")
    => /\ au_hist.tick = "clean"
       /\ st_ret = Ret("auto", "NO", FALSE)
       /\ se.fp # "none" => se.crc = crc16_ccitt(se.mem, EntryLen, 0)

C17_Witness ==
    /\ se.auto /\ se.fp # "none" /\ st_pc = "run"
    /\ au_hist.prev = "wrote" /\ au_hist.tick = "clean"
    /\ se.mem # DefaultImage
    /\ fsFiles["path"] = [ex |-> TRUE, bytes |-> FileImage(se.mem)]

\* ---- C12: single interface build. A send the kernel refuses with ENOBUFS
\* while nothing is pending leaves its buffer full and CANtxCount 1; the rest
\* of CO_epoll_processMain then has timerNext_us at CANSEND_DELAY_US or less,
\* CO_epoll_processLast arms the timer for it, and when send() succeeds in
\* the CO_CANmodule_process of the next iteration the buffer is no longer
\* full and CANtxCount is 0
C12_BackPressureRetry ==
    /\ s5.stage \in 1..4 =>
          /\ txArray[s5.idx].bufferFull
          /\ cm.CANtxCount = 1
    /\ s5.stage = 2 =>
          /\ ep.timerNext_us <= CANSEND_DELAY_US
          /\ TimerLowered(ep)
    /\ s5.stage = 3 =>
          /\ ep_settime
          /\ TimespecNs(ep.tm.value_sec, ep.tm.value_nsec) <= (CANSEND_DELAY_US + 1) * 1000
          /\ kt.ticks = 0 => kt.value = TimespecNs(ep.tm.value_sec, ep.tm.value_nsec)
    /\ s5.stage = 5 =>
          /\ can_last.op = "process" /\ can_last.wrote
          /\ tx_hist.idx = s5.idx
          /\ ~txArray[s5.idx].bufferFull
          /\ cm.CANtxCount = 0

C12_Witness ==
    /\ ~multi
    /\ s5.stage = 5
    /\ ep_src = "timer"
    /\ ep.tm.value_nsec = (CANSEND_DELAY_US + 1) * 1000
    /\ cm.CANtxCount = 0
    /\ ~txArray[s5.idx].bufferFull

\* ---- C13: single interface build. When CO_CANmodule_process finds
\* CANtxCount above 0 and no buffer full, it leaves CANtxCount at 0 and
\* sends nothing
C13_CounterReset ==
    (~multi /\ cm.CANinterfaceCount > 0 /\ ml_pc = "stack" /\ can_last.op = "process"
        /\ tx_hist.op = "process" /\ tx_hist.count > 0 /\ tx_hist.full = {})
    => /\ cm.CANtxCount = 0
       /\ ~can_last.wrote
       /\ \A i \in 1..Len(txArray) : ~txArray[i].bufferFull

C13_Witness ==
    /\ ~multi /\ cm.CANinterfaceCount > 0
    /\ ml_pc = "stack" /\ can_last.op = "process"
    /\ tx_hist.op = "process" /\ tx_hist.count > 0 /\ tx_hist.full = {}
    /\ cm.CANtxCount = 0

\* ---- C19: in an iteration of main's loop the auto-save tick comes before
\* CO_epoll_processLast
C19_AutoSaveBeforeLast ==
    \A i \in 1..Len(ml_trace), j \in 1..Len(ml_trace) :
        (ml_trace[i] = "auto" /\ ml_trace[j] = "last") => i < j

\* ---- C20: SYNC, RPDO and TPDO are processed in this order, by the holder
\* of the lock of the object dictionary and with CANnormal true; from the
\* moment main has cleared CANnormal until CO_CANsetNormalMode none of them
\* is processed
C20_RtUnderLockInNormal ==
    /\ rt_pc \in {"sync", "rpdo", "tpdo"} =>
          /\ odLock = RtCaller
          /\ cm.CANnormal
          /\ ~resetting
    /\ rt_last.step # "none" =>
          /\ rt_last.lock = RtCaller
          /\ rt_last.normal
          /\ ~rt_last.resetting
    /\ rt_steps \in {<<>>, <<"SYNC">>, <<"SYNC", "RPDO">>, <<"SYNC", "RPDO", "TPDO">>}
    /\ rt_pc = "unlock" => rt_steps \in {<<>>, <<"SYNC", "RPDO", "TPDO">>}
    /\ resetting => ~cm.CANnormal

C20_Witness ==
    /\ ~singleThread
    /\ resetting
    /\ main_pc = "config"
    /\ rt_pc = "unlock" /\ odLock = "rt"
    /\ rt_steps = <<>>
    /\ rt_last.step = "TPDO"

\* ---- C23: a return of CO_epoll_wait classifies the iteration by the
\* ---- descriptor epoll_wait reported: eventfd, counter read to 0, epoll_new
\* ---- and timerEvent false; timer, expirations read, epoll_new false and
\* ---- timerEvent true; another descriptor, epoll_new true and timerEvent
\* ---- false; a signal (or an error), both false; always timerNext_us is
\* ---- timerInterval_us.
C23_WaitClassifies ==
    [][(ep_pc = "wait" /\ ep_pc' = "proc") =>
          /\ ep'.timerNext_us = ep.timerInterval_us
          /\ ep'.timerInterval_us = ep.timerInterval_us
          /\ ep_src' = "event" =>
                (evCount' = 0 /\ kt' = kt /\ ~ep'.epoll_new /\ ~ep'.timerEvent)
          /\ ep_src' = "timer" =>
                (kt'.ticks = 0 /\ evCount' = evCount /\ ~ep'.epoll_new /\ ep'.timerEvent)
          /\ ep_src' = "other" =>
                (evCount' = evCount /\ kt' = kt /\ ep'.epoll_new /\ ~ep'.timerEvent)
          /\ ep_src' \in {"eintr", "error"} =>
                (evCount' = evCount /\ kt' = kt /\ ~ep'.epoll_new /\ ~ep'.timerEvent)]_vars

\* the timer was reported while the eventfd and another descriptor were
\* ready too, in an iteration after one that had lowered timerNext_us
C23_Witness ==
    /\ ep_pc = "proc" /\ ep_src = "timer" /\ ep.timerEvent /\ ~ep.epoll_new
    /\ evCount > 0 /\ otherReady /\ kt.ticks = 0 /\ ep_settime
    /\ ep.timerNext_us = ep.timerInterval_us

\* ---- C22: a notification written to the eventfd is never lost: pending
\* ---- notifications are always followed by a return of CO_epoll_wait that
\* ---- the eventfd caused and that read them all, whatever the mainline was
\* ---- doing when they were written and whether or not the timer expires.
C22_NoWakeupLost ==
    /\ [](evCount > 0 => wakeRet = 0)
    /\ (evCount > 0) ~> (ep_pc = "proc" /\ ep_src = "event" /\ wakeRet = 1 /\ evCount = 0)

\* two notifications were read by one return while the timer, re-armed by
\* the iteration before, had not expired
C22_Witness ==
    /\ ep_pc = "proc" /\ ep_src = "event" /\ wakeRet = 1 /\ evCount = 0
    /\ ep_val = 2 /\ kt.ticks = 0 /\ kt.value > 0 /\ ep_settime

\* ---- C24: single interface build, CO_CANsend with a usable interface. A
\* ---- complete write clears bufferFull and, if it was set, decrements
\* ---- CANtxCount; EINTR, EAGAIN or ENOBUFS sets bufferFull, increments
\* ---- CANtxCount and returns TX_BUSY; any other failure sets the TX overflow
\* ---- status bit, returns SYSCALL and leaves bufferFull and CANtxCount alone.
SendDone ==
    /\ ~multi /\ can_last.op = "send" /\ tx_hist.op = "send"
    /\ tx_hist.err # "ILLEGAL_ARGUMENT"

SendOkAndOther ==
    LET i == tx_hist.idx
        wasFull == i \in tx_hist.full
    IN  /\ tx_hist.outcome = "ok" =>
              /\ ~txArray[i].bufferFull
              /\ cm.CANtxCount = IF wasFull THEN (tx_hist.count + 65535) % 65536
                                 ELSE tx_hist.count
              /\ tx_hist.err \in {"NO", "TX_OVERFLOW"}
        /\ tx_hist.outcome = "EIO" =>
              /\ BitAnd(eh.CANerrorStatus, CO_CAN_ERRTX_OVERFLOW) # 0
              /\ tx_hist.err = "SYSCALL"
              /\ txArray[i].bufferFull = wasFull
              /\ cm.CANtxCount = tx_hist.count
        /\ \A j \in 1..TxSize : j # i => txArray[j].bufferFull = (j \in tx_hist.full)

C24_SendOutcomes ==
    SendDone =>
       /\ SendOkAndOther
       /\ SendBusy(tx_hist.outcome) =>
             /\ txArray[tx_hist.idx].bufferFull
             /\ cm.CANtxCount = (tx_hist.count + 1) % 65536
             /\ tx_hist.err = "TX_BUSY"

\* ---- C24 as the code has it: a refused send counts the buffer only when
\* ---- it was not pending already.
C24_SendOutcomesCountedOnce ==
    SendDone =>
       /\ SendOkAndOther
       /\ SendBusy(tx_hist.outcome) =>
             /\ txArray[tx_hist.idx].bufferFull
             /\ cm.CANtxCount = IF tx_hist.idx \in tx_hist.full
                                THEN tx_hist.count ELSE (tx_hist.count + 1) % 65536
             /\ tx_hist.err = "TX_BUSY"

\* a send refused with ENOBUFS on a buffer that was pending already: the
\* counter stays at 1 and the overflow is noted in the status
C24_Witness ==
    /\ SendDone /\ tx_hist.outcome = "ENOBUFS" /\ tx_hist.idx \in tx_hist.full
    /\ tx_hist.count = 1 /\ cm.CANtxCount = 1 /\ tx_hist.err = "TX_BUSY"
    /\ txArray[tx_hist.idx].bufferFull
    /\ BitAnd(eh.CANerrorStatus, CO_CAN_ERRTX_OVERFLOW) # 0

\* ---- C25: after CO_CANsetNormalMode CANnormal is true exactly when the
\* ---- filters were applied on the interface; while CANnormal is false no
\* ---- received frame is dispatched and SYNC, RPDO and TPDO are not
\* ---- processed, and only a CO_CANsetNormalMode whose filters were applied
\* ---- makes it true.
C25_NormalIffFiltersApplied ==
    /\ [](can_last.op = "normal" =>
             (cm.CANnormal <=> (can_last.ok \/ cm.CANinterfaceCount = 0)))
    /\ [](~cm.CANnormal =>
             /\ rt_pc \notin {"sync", "rpdo", "tpdo"}
             /\ can_last.op = "rx" => can_last.invoked = NoInvoked)
    /\ [][(~cm.CANnormal /\ cm'.CANnormal) => (can_last'.op = "normal" /\ can_last'.ok)]_vars

\* the filters of a configured slot could not be installed: CANnormal stayed
\* false, an error frame was read from the socket and not processed, and the
\* real-time thread skipped its objects
C25_Witness ==
    /\ ~cm.CANnormal /\ main_pc = "run" /\ rxArray[1].cb
    /\ rxFilter[1].can_id # WordZero /\ kfilter = {}
    /\ can_last.op = "rx" /\ can_last.kind # "data" /\ can_last.ok
    /\ can_last.invoked = NoInvoked
    /\ rt_last.step = "TPDO" /\ rt_steps = <<>> /\ rt_pc = "last"

\* the file holds exactly the image and its matching CRC
ExactFile(c) ==
    /\ c.ex /\ Len(c.bytes) = EntryLen + 2
    /\ Word16(SubSeq(c.bytes, EntryLen + 1, EntryLen + 2)) = crc16_ccitt(c.bytes, EntryLen, 0)

\* ---- C26: CO_storageLinux_init overwrites the memory with the file exactly
\* ---- when the file holds len + 2 bytes with a matching CRC; any other file
\* ---- but "-\n" (absent, short, over-long, wrong CRC) leaves the memory as
\* ---- it was, gives DATA_CORRUPT without stopping the initialisation and
\* ---- sets bit min(subIndexOD, 31) of the error mask; "-\n" leaves the
\* ---- memory as it was and sets no bit.
C26_InitRestoresIffExact ==
    (st_pc = "run" /\ st_ret.op = "init" /\ st_hist.end = "first") =>
       LET c == st_hist.prev
           marker == c.ex /\ c.bytes = DefaultsMarker
       IN  /\ st_ret.restored <=> ExactFile(c)
           /\ ExactFile(c) =>
                 /\ se.mem = SubSeq(c.bytes, 1, EntryLen)
                 /\ st_ret.code = "NO" /\ st_ret.mask = {}
           /\ marker =>
                 /\ se.mem = DefaultImage
                 /\ st_ret.code = "NO" /\ st_ret.mask = {}
           /\ (~ExactFile(c) /\ ~marker) =>
                 /\ se.mem = DefaultImage
                 /\ st_ret.code = "DATA_CORRUPT"
                 /\ st_ret.mask = {IF se.sub > 31 THEN 31 ELSE se.sub}
           /\ se.auto => se.fp = "path"

\* the file of the entry holds the two bytes "-\n"
MarkerFile ==
    fsFiles["path"] = [ex |-> TRUE, bytes |-> DefaultsMarker]

AfterResetStays(resaved) ==
    (st_pc = "run" /\ st_run.reset /\ ~resaved) =>
       (MarkerFile /\ (se.auto => se.fp = "none"))

AfterResetShutdown(resaved) ==
    (st_pc = "boot" /\ st_hist.end = "orderly" /\ st_hist.reset /\ ~resaved) =>
       MarkerFile

AfterResetNextInit(resaved) ==
    (st_pc = "run" /\ st_hist.end = "orderly" /\ st_hist.reset /\ ~resaved) =>
       /\ st_ret.op = "init" /\ ~st_ret.restored
       /\ st_ret.code = "NO" /\ st_ret.mask = {}
       /\ se.mem = DefaultImage

EmRising ==
    em_last.before = {} /\ em_last.mask # {}

EmFalling ==
    em_last.before # {} /\ em_last.mask = {}

\* the emergency is reported on a rising edge only, reset on a falling edge
\* only, and a tick that leaves the failure state as it was emits nothing
EmOnEdgesOnly ==
    /\ em_last.emit = "report" => EmRising
    /\ em_last.emit = "reset" => EmFalling
    /\ (~EmRising /\ ~EmFalling) => em_last.emit = "none"

\* a failure found by the last tick is covered by a reported emergency
EmCoversFailure ==
    storageErrorPrev # {} => emAutoSave

\* C28: main reports the emergency NON_VOLATILE_AUTO_SAVE only when the mask
\* of CO_storageLinux_auto_process goes from zero to non-zero and resets it
\* only when the mask goes back to zero, a tick that leaves the failure state
\* unchanged emits nothing, and a failure that is still present is always
\* covered by an emergency that was reported.
C28_EmergencyFollowsFailure ==
    EmOnEdgesOnly /\ EmCoversFailure

\* a failure that began while the node id was unconfigured, found again by a
\* tick of the configured node: no emergency was and none is reported
C28_FailureNeverReported ==
    /\ em_last.mask # {} /\ em_last.before = em_last.mask
    /\ ~em_last.unconfigured /\ ~nodeIdUnconfigured
    /\ em_last.emit = "none" /\ ~emAutoSave

\* ---- C29: the effect of a controller error frame on CANerrorStatus

\* the bits of a status word
StatusBits(w) ==
    {b \in {CO_CAN_ERRTX_WARNING, CO_CAN_ERRTX_PASSIVE, CO_CAN_ERRTX_BUS_OFF,
            CO_CAN_ERRTX_OVERFLOW, 16, 32, 64, 128, CO_CAN_ERRRX_WARNING,
            CO_CAN_ERRRX_PASSIVE, 1024, CO_CAN_ERRRX_OVERFLOW, 4096, 8192, 16384, 32768} :
        BitAnd(w, b) # 0}

\* the condition of data[1] that acts: the first of the chain
CrtlCase(d) ==
    CASE BitAnd(d, CAN_ERR_CRTL_RX_PASSIVE) # 0 -> "rxPassive"
      [] BitAnd(d, CAN_ERR_CRTL_RX_PASSIVE) = 0 /\ BitAnd(d, CAN_ERR_CRTL_TX_PASSIVE) # 0
            -> "txPassive"
      [] BitAnd(d, 48) = 0 /\ BitAnd(d, CAN_ERR_CRTL_RX_OVERFLOW) # 0 -> "rxOverflow"
      [] BitAnd(d, 49) = 0 /\ BitAnd(d, CAN_ERR_CRTL_TX_OVERFLOW) # 0 -> "txOverflow"
      [] BitAnd(d, 51) = 0 /\ BitAnd(d, CAN_ERR_CRTL_RX_WARNING) # 0 -> "rxWarning"
      [] BitAnd(d, 55) = 0 /\ BitAnd(d, CAN_ERR_CRTL_TX_WARNING) # 0 -> "txWarning"
      [] OTHER -> "none"

\* the last operation processed an error frame with the controller flag and
\* without bus-off
CrtlProcessed ==
    /\ can_last.op = "rx" /\ can_last.kind = "err"
    /\ BitAnd(can_last.class, CAN_ERR_CRTL) # 0
    /\ BitAnd(can_last.class, CAN_ERR_BUSOFF) = 0

\* the status bits after the frame: BUS_OFF cleared, the bit of the case set,
\* the passive bit of a warning cleared, all others as they were; warning:
\* the bits a warning sets
CrtlEffect(warningSets) ==
    LET c == CrtlCase(can_last.data1)
        sets == CASE c = "rxPassive" -> {CO_CAN_ERRRX_PASSIVE}
                  [] c = "txPassive" -> {CO_CAN_ERRTX_PASSIVE}
                  [] c = "rxOverflow" -> {CO_CAN_ERRRX_OVERFLOW}
                  [] c = "txOverflow" -> {CO_CAN_ERRTX_OVERFLOW}
                  [] c = "rxWarning" -> warningSets \cap {CO_CAN_ERRRX_WARNING}
                  [] c = "txWarning" -> warningSets \cap {CO_CAN_ERRTX_WARNING}
                  [] OTHER -> {}
        clears == CASE c = "rxWarning" -> {CO_CAN_ERRRX_PASSIVE}
                    [] c = "txWarning" -> {CO_CAN_ERRTX_PASSIVE}
                    [] OTHER -> {}
    IN  StatusBits(eh.CANerrorStatus) =
            ((StatusBits(can_last.status0) \ {CO_CAN_ERRTX_BUS_OFF}) \ clears) \cup sets

C30_HangupClosesConnection ==
    gw_last.op = "hup"
        => /\ gw_last.fd \in gw_last.held
           /\ gw_last.fd \notin gk.watched
           /\ gw_last.fd \notin gk.open

\* a hang-up closed the connection in a call whose idle time-out did not
C30_Witness ==
    /\ gw_last.op = "hup"
    /\ ~gw_last.idleClosed
    /\ gw_last.fd \in gw_last.held
    /\ gw_last.fd \notin gk.open

\* ---- C21: the program ends once CO_endProgram is set

\* no thread's wait returns more than once after the flag was set
OneMoreIteration ==
    end_hist.main <= 1 /\ end_hist.rt <= 1

\* with rt_thread created, the flag leads to the last save and the teardown
EndsOnceThreadCreated ==
    (CO_endProgram /\ rt_pc # "off") ~> (main_pc = "exited")

\* C21: once CO_endProgram is set, by a signal or by a fatal error of the
\* reset cycle, each loop is left after at most one more iteration, the join
\* of rt_thread returns, and main gets through the last save and the
\* teardown.
C21_EndReachesTeardown ==
    /\ []OneMoreIteration
    /\ CO_endProgram ~> (main_pc = "exited")

\* main has failed in pthread_join of a thread it never created
C21_JoinWithoutThread ==
    main_pc \in {"failed", "crashed"} /\ rt_pc = "off" /\ CO_endProgram

\* ---- C31: the image an auto-save tick leaves in the file

\* a file image whose last two bytes are the CRC-16 of its first EntryLen bytes
SelfConsistent(bytes) ==
    /\ Len(bytes) = EntryLen + 2
    /\ SubSeq(bytes, EntryLen + 1, EntryLen + 2)
          = Bytes16(crc16_ccitt(SubSeq(bytes, 1, EntryLen), EntryLen, 0))

\* the last operation was a tick that reported no error on an open stream
\* whose file holds an image
AutoTickDone ==
    /\ st_pc = "run" /\ st_ret.op = "auto" /\ st_ret.code = "NO"
    /\ se.auto /\ se.fp # "none"
    /\ Len(fsFiles[se.fp].bytes) >= EntryLen + 2

\* C31: the image CO_storageLinux_auto_process leaves in the file of an
\* AUTO_SAVE entry is self-consistent, the stored CRC is the CRC-16 of the
\* stored bytes, also when the memory changes during the tick.
C31_AutoImageConsistent ==
    AutoTickDone => SelfConsistent(fsFiles[se.fp].bytes)

\* a tick wrote the bytes the memory had at fwrite with the CRC it had before
C31_TornImage ==
    /\ AutoTickDone
    /\ SubSeq(fsFiles[se.fp].bytes, 1, EntryLen) = se.mem
    /\ SubSeq(fsFiles[se.fp].bytes, EntryLen + 1, EntryLen + 2) = Bytes16(se.crc)
    /\ se.crc # crc16_ccitt(se.mem, EntryLen, 0)

\* ---- C32: rt_thread's receive path and main's communication reset

\* a step of main's reset that frees or rewrites the module:
\* CO_CANmodule_disable or CO_CANmodule_init
ResetRewrites ==
    \/ main_pc = "reset" /\ main_pc' = "disabled"
    \/ main_pc = "disabled" /\ main_pc' = "config"

\* C32: while rt_thread is inside CO_CANrxFromEpoll, main neither disables
\* nor re-initialises the CAN module, and the thread never goes on reading an
\* interface list that was freed.
C32_RxNeverDuringReset ==
    /\ [][ResetRewrites => rt_pc \notin {"rxin", "rxfreed"}]_vars
    /\ [](rt_pc # "rxfreed")

\* rt_thread is inside CO_CANrxFromEpoll and main has freed the interfaces
C32_RxOnFreedInterface ==
    /\ rt_pc = "rxfreed"
    /\ cm.CANinterfaceCount = 0
    /\ main_pc = "disabled"

\* ---- C33: auto-save ticks after an explicit save

\* the last operation was a tick without error, in a run with an explicit
\* save, that left the entry's CRC at that of its memory
TickAfterStore ==
    /\ st_pc = "run" /\ st_run.saved
    /\ st_ret.op = "auto" /\ st_ret.code = "NO"
    /\ se.auto /\ se.fp # "none"
    /\ se.crc = crc16_ccitt(se.mem, EntryLen, 0)

\* C33: after storeLinux on an AUTO_SAVE entry with an open stream, the
\* image an auto-save tick writes is in <path>, the file the next
\* CO_storageLinux_init reads, and not in <path>.old.
C33_AutoSaveGoesToPath ==
    TickAfterStore
        => /\ se.fp = "path"
           /\ fsFiles["path"] = [ex |-> TRUE, bytes |-> FileImage(se.mem)]

\* the tick wrote the new image into <path>.old and <path> keeps the image
\* of the explicit save
C33_WrittenToOld ==
    /\ TickAfterStore
    /\ se.fp = "old"
    /\ fsFiles["old"] = [ex |-> TRUE, bytes |-> FileImage(se.mem)]
    /\ fsFiles["path"].ex /\ fsFiles["path"].bytes # FileImage(se.mem)

\* ---- C34: CANtxCount and the bufferFull flags

FullBuffers ==
    {i \in 1..TxSize : txArray[i].bufferFull}

TxCountMatches ==
    cm.CANtxCount = Cardinality(FullBuffers)

\* a step of CO_CANsend or CO_CANmodule_process of the single interface build
SendOrProcessStep ==
    /\ ~multi
    /\ main_pc = "run" /\ main_pc' = "run"
    /\ can_last'.op \in {"send", "process"}

RaceOutcomes ==
    {"ok", "EAGAIN", "EIO"}

InitTxRace ==
    CanInitWith(FALSE) /\ EpIdle /\ StIdle /\ GtwIdle /\ ThrIdle

NextTxRace ==
    \/ CO_CANmodule_disable /\ UNCHANGED notCanVars
    \/ CO_CANmodule_init /\ UNCHANGED notCanVars
    \/ CO_CANsetNormalMode(TRUE) /\ UNCHANGED notCanVars
    \/ \E t \in {"main", "rt"}, o \in RaceOutcomes :
          \E i \in SendBuffers(t) : SndCall(t, i, o)
    \/ \E t \in {"main", "rt"} : SndTest(t)
    \/ \E t \in {"main", "rt"} : SndFlag(t)
    \/ \E t \in {"main", "rt"} : SndLoad(t)
    \/ \E t \in {"main", "rt"} : SndStore(t)
    \/ ProcScan
    \/ \E o \in RaceOutcomes : ProcSend(o)

SpecTxRace ==
    InitTxRace /\ [][NextTxRace]_vars

NoSendInProgress ==
    \A t \in {"main", "rt"} : snd[t].pc = "idle"

\* C35: multi-threaded build: with CO_CANsend running in rt_thread and in
\* the mainline at once, CANtxCount equals the number of buffers with
\* bufferFull set whenever no send is in progress, and CANtxCount never
\* wraps below zero.
C35_NoLostUpdate ==
    /\ NoSendInProgress => TxCountMatches
    /\ cm.CANtxCount <= TxSize

\* no send in progress, no buffer pending and the counter at 65535
C35_CounterWrapped ==
    /\ NoSendInProgress
    /\ FullBuffers = {}
    /\ cm.CANtxCount = 65535

\* ---- C36: the listener after a connection has ended

\* the call of CO_epoll_processGtw of a mainline iteration the timer woke
GtwTimerCall ==
    CO_epoll_processGtw("none", "data", <<>>, "a", "a", TRUE, TRUE, TRUE, MaxTimeDiff)
        /\ UNCHANGED <<stVars, canVars, thrVars>>

\* the interval timer keeps waking the mainline
FairGtw ==
    WF_vars(GtwTimerCall)

SpecGtwFair ==
    InitGtw /\ [][NextGtw]_vars /\ FairGtw

\* the last call of CO_epoll_processGtw closed a connection
ConnEnded ==
    /\ gw.gtwa_fdSocket > 0
    /\ gw_last.op \in {"none", "in", "hup"}
    /\ gw_last.held \ gk.open # {}

\* C36: socket gateway: after a connection has ended (end of file, hang-up
\* or error event, idle time-out) the one-shot watch of the listener is
\* armed again at some time, with and without an idle time-out.
C36_ListenerRearmed ==
    ConnEnded ~> gk.armed

\* a hang-up closed the only connection of a gateway without idle time-out
\* and the listener is not armed
C36_HangupLeavesListenerOff ==
    /\ ConnEnded
    /\ gw_last.op = "hup"
    /\ gw.socketTimeout_us = 0
    /\ gk.open = {} /\ ~gk.armed
    /\ gk.backlog > 0

\* with an idle time-out the watch is armed again after every end
RearmedWithTimeout ==
    (ConnEnded /\ gw.socketTimeout_us > 0) ~> gk.armed

\* ---- C37: the overflow bits of CANerrorStatus

OvfFrames ==
    {ErrFrame(CAN_ERR_CRTL, d) :
        d \in {CAN_ERR_CRTL_RX_OVERFLOW, CAN_ERR_CRTL_RX_WARNING, CAN_ERR_CRTL_TX_WARNING}}
        \cup {ErrFrame(CAN_ERR_BUSOFF, 0), MonitorData}

InitOvf ==
    CanInitWith(FALSE) /\ EpIdle /\ StIdle /\ GtwIdle /\ ThrIdle

NextOvf ==
    \/ CO_CANmodule_disable /\ UNCHANGED notCanVars
    \/ CO_CANmodule_init /\ UNCHANGED notCanVars
    \/ CO_CANrxBufferInit(1, 384, 2047, FALSE, TRUE) /\ UNCHANGED notCanVars
    \/ CO_CANsetNormalMode(TRUE) /\ UNCHANGED notCanVars
    \/ ResetBegin /\ UNCHANGED notCanVars
    \/ \E msg \in OvfFrames :
          CO_CANrxFromEpoll("EPOLLIN", msg, TRUE, 0) /\ UNCHANGED notCanVars
    \/ \E i \in 1..TxSize, o \in {"ok", "EAGAIN", "EIO"} :
          CO_CANsend(i, o) /\ UNCHANGED notCanVars
    \/ \E o \in {"ok", "EAGAIN", "EIO"} : CO_CANmodule_process(o) /\ UNCHANGED notCanVars

SpecOvf ==
    InitOvf /\ [][NextOvf]_vars

OverflowBits(w) ==
    StatusBits(w) \cap {CO_CAN_ERRTX_OVERFLOW, CO_CAN_ERRRX_OVERFLOW}

\* C37: an overflow bit that is set in the CANerrorStatus of the interface
\* stays set over every received error frame, data frame and send, and
\* every CO_CANmodule_process copies it to the CANerrorStatus of the
\* module; only disabling or initialising the monitor clears it.
C37_OverflowSticky ==
    [][can_last'.op \in {"rx", "send", "process"}
          => /\ OverflowBits(eh.CANerrorStatus) \subseteq OverflowBits(eh'.CANerrorStatus)
             /\ (can_last'.op = "process" /\ cm.CANinterfaceCount > 0)
                   => OverflowBits(eh.CANerrorStatus)
                         \subseteq OverflowBits(cm'.CANerrorStatus)]_vars

\* a warning frame was processed with both overflow bits set, they are
\* still set and the module's status has them
C37_Witness ==
    /\ CrtlProcessed
    /\ CrtlCase(can_last.data1) = "rxWarning"
    /\ OverflowBits(can_last.status0) = {CO_CAN_ERRTX_OVERFLOW, CO_CAN_ERRRX_OVERFLOW}
    /\ OverflowBits(eh.CANerrorStatus) = {CO_CAN_ERRTX_OVERFLOW, CO_CAN_ERRRX_OVERFLOW}
    /\ OverflowBits(cm.CANerrorStatus) = {CO_CAN_ERRTX_OVERFLOW, CO_CAN_ERRRX_OVERFLOW}

\* ---- C38: the join of rt_thread

\* main is at pthread_join and pthread_create has never run
JoinWithoutThread ==
    main_pc = "join" /\ rt_pc = "off"

\* C38: main joins rt_thread only if the thread was created: when the first
\* reset cycle fails before pthread_create, no join of the never created
\* thread is made and main runs the teardown and exits.
C38_JoinOnlyCreatedThread ==
    /\ [][(main_pc = "join" /\ main_pc' # "join") => rt_pc # "off"]_vars
    /\ JoinWithoutThread ~> (main_pc = "exited")

\* the first reset cycle failed in CO_CANinit and main stands at the join
C38_FatalBeforeThread ==
    /\ JoinWithoutThread
    /\ CO_endProgram
    /\ cm.CANinterfaceCount = 0 /\ ~cm.CANnormal

\* ---- C39: the no-ack escalation after the listen-only time-out

ProbeFrames ==
    {ErrFrame(CAN_ERR_ACK, 0), ErrFrame(CAN_ERR_BUSERROR, 0), ErrFrame(CAN_ERR_BUSOFF, 0)}

InitProbe ==
    CanInitWith(TRUE) /\ EpIdle /\ StIdle /\ GtwIdle /\ ThrIdle

NextProbe ==
    \/ CO_CANmodule_disable /\ UNCHANGED notCanVars
    \/ CO_CANmodule_init /\ UNCHANGED notCanVars
    \/ CO_CANmodule_addInterface /\ UNCHANGED notCanVars
    \/ CO_CANsetNormalMode(TRUE) /\ UNCHANGED notCanVars
    \/ \E msg \in ProbeFrames :
          CO_CANrxFromEpoll("EPOLLIN", msg, TRUE, 0) /\ UNCHANGED notCanVars
    \/ \E i \in 1..TxSize : CO_CANsend(i, "ok") /\ UNCHANGED notCanVars
    \/ Tick /\ UNCHANGED notCanVars

SpecProbe ==
    InitProbe /\ [][NextProbe]_vars

\* a send request whose CO_CANerror_txMsg ends listen-only by the time-out
TimeoutLeaveStep ==
    can_last'.op = "send" /\ eh.listenOnly /\ ~eh'.listenOnly

\* an ACK-miss error frame is processed while the monitor is not in listen-only
AckMissStep ==
    /\ can_last'.op = "rx" /\ can_last'.kind = "ack" /\ can_last'.ok
    /\ cm.CANnormal /\ ~eh.listenOnly

\* C39 as stated: after the monitor has left listen-only through the
\* time-out of CO_CANerror_txMsg the escalation starts over as from the
\* initial state: the no-ack counter is 0, so that more than 16 further
\* ACK-miss error frames are needed before listen-only is entered again.
C39_EscalationRestarts ==
    [][TimeoutLeaveStep => eh'.noackCounter = 0]_vars

\* C39: leaving listen-only through the time-out of CO_CANerror_txMsg
\* leaves the no-ack counter as it was, and an ACK-miss error frame that
\* finds the counter at 16 or more takes the monitor to listen-only: after
\* an escalation by ACK misses one further ACK-miss frame is enough.
C39_EscalationResumes ==
    /\ [][TimeoutLeaveStep => eh'.noackCounter = eh.noackCounter]_vars
    /\ [][(AckMissStep /\ eh.noackCounter >= CO_CANerror_NOACK_MAX)
             => eh'.listenOnly]_vars
    /\ [][(AckMissStep /\ eh.noackCounter < CO_CANerror_NOACK_MAX)
             => ~eh'.listenOnly]_vars

\* listen-only entered again by the first ACK-miss frame after the time-out
C39_Witness ==
    /\ can_last.op = "rx" /\ can_last.kind = "ack" /\ ~can_last.wasLO
    /\ eh.listenOnly
    /\ eh.noackCounter = CO_CANerror_NOACK_MAX + 2
    /\ now > CO_CANerror_LISTEN_ONLY * TicksPerSec

\* ---- C40: the re-send of pending buffers once the socket takes frames

\* what send() can do with the socket's queue as it is
QueueOutcomes ==
    IF sockFull THEN {"EAGAIN", "ENOBUFS", "EINTR"} ELSE {"ok"}

\* the queue of the socket fills up or drains
SocketQueue(full) ==
    /\ main_pc = "run"
    /\ sockFull # full
    /\ sockFull' = full
    /\ UNCHANGED <<epVars, stVars, canVars, gtwVars, au_hist, singleThread, snd, ml_pc,
                   storageIntervalTimer, emVars, endVars, odLock, rt_pc, ml_trace, tx_hist,
                   s5, rt_steps, rt_last, resetting>>

\* CO_CANmodule_process of a mainline iteration
ProcessTick ==
    \E o \in QueueOutcomes : CO_CANmodule_process(o) /\ UNCHANGED notCanVars

InitResend ==
    CanInitWith(FALSE) /\ EpIdle /\ StIdle /\ GtwIdle /\ ThrIdle

NextResend ==
    \/ CO_CANmodule_disable /\ UNCHANGED notCanVars
    \/ CO_CANmodule_init /\ UNCHANGED notCanVars
    \/ CO_CANsetNormalMode(TRUE) /\ UNCHANGED notCanVars
    \/ \E full \in BOOLEAN : SocketQueue(full)
    \/ \E i \in 1..TxSize, o \in QueueOutcomes : SendCall(i, o)
    \/ ProcessTick

\* mainline iterations keep occurring
FairResend ==
    WF_vars(ProcessTick)

SpecResend ==
    InitResend /\ [][NextResend]_vars /\ FairResend

\* CO_CANmodule_process with frames pending and a socket that takes them
ResendStep ==
    /\ ProcessTick
    /\ main_pc = "run" /\ cm.CANinterfaceCount > 0
    /\ cm.CANtxCount > 0 /\ FullBuffers # {}
    /\ ~sockFull /\ ~sockFull'

\* the first full buffer of the array, and no other, is sent and is no longer full
FirstFullResent ==
    LET i == CHOOSE k \in FullBuffers : \A j \in FullBuffers : k <= j
    IN  /\ can_last'.wrote
        /\ txArray' = [txArray EXCEPT ![i].bufferFull = FALSE]

\* once the socket takes every frame, each pending buffer is cleared and
\* the counter returns to 0
PendingCleared ==
    <>[](~sockFull)
        => /\ \A i \in 1..TxSize : txArray[i].bufferFull ~> ~txArray[i].bufferFull
           /\ (cm.CANtxCount > 0) ~> (cm.CANtxCount = 0)

\* C40: single interface build: when from some time on the socket takes
\* every frame and the mainline keeps calling CO_CANmodule_process, every
\* buffer with bufferFull set is sent again by CO_CANmodule_process, one
\* buffer per call in the order of the TX array, its flag is cleared and
\* CANtxCount returns to 0.
C40_PendingBuffersResent ==
    /\ [][ResendStep => FirstFullResent]_vars
    /\ PendingCleared

\* the same with rt_thread sending while the mainline re-sends
MainResendStep ==
    \/ snd["main"].pc = "idle" /\ ~singleThread /\ ProcessTick
    \/ ProcScan
    \/ \E o \in QueueOutcomes : ProcSend(o)
    \/ SndTest("main") \/ SndFlag("main") \/ SndLoad("main") \/ SndStore("main")

RtSendStep ==
    SndTest("rt") \/ SndFlag("rt") \/ SndLoad("rt") \/ SndStore("rt")

NextResendRace ==
    \/ CO_CANmodule_disable /\ UNCHANGED notCanVars
    \/ CO_CANmodule_init /\ UNCHANGED notCanVars
    \/ CO_CANsetNormalMode(TRUE) /\ UNCHANGED notCanVars
    \/ \E full \in BOOLEAN : SocketQueue(full)
    \/ \E i \in SendBuffers("rt"), o \in QueueOutcomes : SndCall("rt", i, o)
    \/ RtSendStep
    \/ MainResendStep

\* the mainline keeps iterating and a call in progress comes to its end
FairResendRace ==
    WF_vars(MainResendStep) /\ WF_vars(RtSendStep)

SpecResendRace ==
    InitResend /\ [][NextResendRace]_vars /\ FairResendRace

\* no send in progress, the socket takes frames, a buffer is pending and
\* CANtxCount is 0: CO_CANmodule_process does not look at the buffers
C40_PendingNotCounted ==
    /\ NoSendInProgress
    /\ ~sockFull
    /\ FullBuffers # {}
    /\ cm.CANtxCount = 0

\* a refused frame has been sent again by CO_CANmodule_process after the
\* socket drained, nothing is pending any more
C40_Witness ==
    /\ can_last.op = "process" /\ can_last.wrote
    /\ tx_hist.op = "send" /\ tx_hist.err = "TX_BUSY"
    /\ ~sockFull
    /\ FullBuffers = {} /\ cm.CANtxCount = 0

====
